---- MODULE Spec2Model ----
(***************************************************************************)
(* resilient-fetch-client: the request context (SimpleFetchClient), the    *)
(* resilience pipeline (ResilientFetchClient: overall deadline > retry >   *)
(* bulkhead > circuit breaker > per-request timeout > transport) and the   *)
(* caching coordinator (CachingClient).                                    *)
(*                                                                         *)
(* One action is one event of the JavaScript event loop (a call by the     *)
(* user, a timer firing, the transport or a cache backend answering) with  *)
(* everything that runs to completion in it.  The policies are cockatiel's *)
(* as the constructor of ResilientFetchClient configures them.             *)
(* Time is a discrete clock; one unit of the clock stands for 25 ms where  *)
(* a program constant is given in milliseconds.                            *)
(* The transport honours its abort signal: a transport call whose signal   *)
(* fires returns in the same event with the abort reason.                  *)
(***************************************************************************)
EXTENDS Integers, Sequences, FiniteSets, TLC

\* ------------------------------------------------------------ bounds
NCalls == 2           \* calls a user issues where the policies are combined
NBurst == 3           \* calls a user issues against the bulkhead alone
MaxTime == 5          \* the clock stops here
MaxRetries == 2       \* retries.maxRetries of the configurations explored
OpenAfter == 2        \* circuitBreaker.openAfterFailedAttempts
HalfOpenAfter == 2    \* circuitBreaker.halfOpenAfter
MaxParallel == 1      \* parallelRequests.maxParallelRequests
MaxQueued == 1        \* parallelRequests.maxQueuedRequests
TimeoutRequest == 2   \* timeoutRequest
TimeoutTotal == 3     \* timeoutTotal
MaxBackoff == 1       \* longest backoff delay the jittered backoff yields
MaxRetryAfter == 2    \* longest Retry-After delay a response carries
MaxCloseTimeout == 3  \* longest timeout given to close()
MaxCacheTime == 1     \* the clock of the caching client stops here
LongTimeoutTotal == 5 \* a timeoutTotal that leaves more than the safety margin
LongRetryAfter == 4   \* longest Retry-After delay where the retries are observed
MaxRevalidationTime == 3  \* the clock stops here where entries are revalidated
MaxLongWaits == 2     \* waits of a second where the stale-* windows run out
NProviders == 2       \* cache providers the caching client is configured with
NTables == 2          \* cache tables requests name
NRequests == 3        \* requests that ask for a cache backend
NWatched == 1         \* calls issued where one call is observed alone (without
                      \* bulkhead and breaker the calls do not meet)

\* ------------------------------------------------------------ program constants
Step == 2             \* SimpleFetchClient.close: step = 50 ms
SafetyMargin == 2     \* ResilientFetchClient._fetchInternal: the 5_000 ms margin,
                      \* on the scale of the deadlines explored
Second == 40          \* CachingClient._cacheState: seconds to clock units (* 1000)

None == 0 - 1         \* undefined
Calls == 1..NBurst
Users == 1..NCalls
\* ResilientFetchClient._DEFAULT_RETRY_METHODS, and the one method outside it
\* that is explored.
DefaultRetryMethods == {"GET", "HEAD", "PUT", "DELETE", "OPTIONS", "TRACE"}
Methods == {"GET", "POST"}
RetryAfterCodes == {429, 503}
DefaultRetryCodes == {408, 420, 429, 500, 502, 503, 504}
DefaultCircuitBreakerCodes == {408, 420, 429, 500, 502, 503, 504}

\* What the transport can answer: a status and, on it, a Retry-After delay.
Responses ==
    {[status |-> st, retryAfter |-> None] : st \in {200, 404, 503}}
    \cup {[status |-> 503, retryAfter |-> ra] : ra \in 1..MaxRetryAfter}

\* FetchClientOptions given to createFetchClient.
Options ==
    [retries : 0..MaxRetries, circuitBreaker : BOOLEAN, parallelRequests : BOOLEAN,
     timeoutRequest : {0, TimeoutRequest}, timeoutTotal : {0, TimeoutTotal, LongTimeoutTotal},
     defaultSkipFailOnErrorCode : BOOLEAN, cache : BOOLEAN, retryPosts : BOOLEAN]

Opt(r, cb, bh, tr, tt, ds) ==
    [retries |-> r, circuitBreaker |-> cb, parallelRequests |-> bh,
     timeoutRequest |-> tr, timeoutTotal |-> tt,
     defaultSkipFailOnErrorCode |-> ds, cache |-> FALSE, retryPosts |-> FALSE]

\* The clients explored: every policy at once, and each policy without the
\* ones that mask what it does alone.
ResilientConfigs ==
    {Opt(MaxRetries, TRUE, TRUE, TimeoutRequest, TimeoutTotal, FALSE),
     Opt(1, FALSE, FALSE, 0, 0, TRUE),
     Opt(1, TRUE, FALSE, 0, 0, FALSE),
     Opt(1, FALSE, TRUE, 0, 0, FALSE),
     Opt(1, FALSE, FALSE, TimeoutRequest, 0, FALSE),
     Opt(0, FALSE, TRUE, 0, 0, FALSE)}

SimpleConfigs ==
    {Opt(0, FALSE, FALSE, 0, 0, FALSE),
     Opt(0, FALSE, FALSE, 0, 0, TRUE),
     Opt(0, FALSE, FALSE, 0, TimeoutTotal, FALSE)}

VARIABLES
    cfg,               \* the options the client was created with
    now,               \* Date.now()
    closed,            \* SimpleFetchClient.#closed
    abortControllers,  \* SimpleFetchClient.#abortControllers (the calls owning one)
    call,              \* per call: position in the pipeline, timers, outcome
    active,            \* bulkhead: executing
    queue,             \* bulkhead: waiting, FIFO
    breaker,           \* circuit breaker state
    closer,            \* the pending close() call
    ccall,             \* per call: position in CachingClient.fetchJson
    cache,             \* the cache backend's entry for the requested key
    seen,              \* per call: what the transport and a clock beside it have
                       \* observed of the retries
    loading            \* CachingClient: the cache backends and their factories

pvars == <<cfg, now, closed, abortControllers, call, active, queue, breaker, closer>>
cvars == <<ccall, cache>>
ovars == <<seen, loading>>
vars == <<pvars, cvars, ovars>>

\* ------------------------------------------------------------ createFetchClient
\* createFetchClient: no resilience option set => SimpleFetchClient.
useSimpleClient(o) ==
    /\ ~(o.timeoutRequest > 0)
    /\ ~(o.parallelRequests /\ MaxParallel > 0)
    /\ ~(o.retries > 0)
    /\ ~(o.circuitBreaker /\ OpenAfter > 0)

\* SimpleFetchClient.#skipFailOnErrorCode: the fifth constructor argument, which
\* neither createFetchClient nor ResilientFetchClient's super(...) call passes.
skipFailOnErrorCodeField(o) == FALSE

HasRetry == ~useSimpleClient(cfg) /\ cfg.retries > 0
HasBulkhead == ~useSimpleClient(cfg) /\ cfg.parallelRequests
HasBreaker == ~useSimpleClient(cfg) /\ cfg.circuitBreaker
HasTimeout == ~useSimpleClient(cfg) /\ cfg.timeoutRequest > 0
HasGlobalTimeout == ~useSimpleClient(cfg) /\ cfg.timeoutTotal > 0

\* ------------------------------------------------------------ state of one call
IdleCall ==
    [pc |-> "idle",          \* idle, inflight, raSleep, backoff, queued, hoWait, fin
     outcome |-> "none",     \* what the caller's promise settled with: ok (a response
                             \* with status < 400), okErr (a response with status >= 400),
                             \* http, timeout, cancelled, bulkhead, broken, network,
                             \* aborted, closed
     skip |-> FALSE,         \* init.skipFailOnErrorCode
     method |-> "GET",       \* the method the request is sent with
     viaRequest |-> FALSE,   \* input is a Request carrying the method, init.method
                             \* is not set
     aborted |-> FALSE,      \* signal0.aborted
     attempt |-> 0,          \* RetryPolicy: retries made
     calls |-> 0,            \* transport invocations
     startTime |-> None,     \* _fetchInternal: startTime (read with timeoutTotal only)
     totalDl |-> None,       \* overall deadline timer
     outerDone |-> FALSE,    \* the overall timeout's race has settled
     reqDl |-> None,         \* per-request timer
     wakeAt |-> None,        \* end of the backoff or Retry-After sleep
     sleepLive |-> FALSE,    \* the Retry-After sleep's abort listener can fire
     bgWake |-> None,        \* a Retry-After sleep the attempt no longer waits for
     retryAfter |-> None,    \* _fetchInternal: retryAfter
     adapted |-> FALSE,      \* _fetchInternal: adaptedToRetryAfter
     brMode |-> "none",      \* branch of CircuitBreakerPolicy.execute the attempt is in
     admitted |-> "none",    \* how the breaker took an attempt that came within
                             \* halfOpenAfter of the circuit tripping: broken, passed, wait
     lateCall |-> FALSE,     \* the transport was called after signal0 had fired
     headers |-> <<>>,       \* init.headers, one header: the entries of its value
                             \* (a comma-separated list), <<>> if it is not set
     defaults |-> <<>>]      \* _fetchInternal: the default headers still to apply
                             \* (defaultHeaders, defaultHeadersByMethod[method]):
                             \* the values they give that header, "" being <<>>

\* The shared state the chain of policies works on.
Cur == [call |-> call, active |-> active, queue |-> queue, breaker |-> breaker,
        ctrls |-> abortControllers]

\* SimpleFetchClient._mergeHeaders, for one header and one update: an empty
\* value deletes it; a value equal to one of the entries of the present value
\* (split at the commas) is skipped; any other is appended.
mergeValue(result, value) ==
    IF value = <<>> THEN <<>>
    ELSE IF result # <<>> /\ \E i \in 1..Len(result) : <<result[i]>> = value
    THEN result
    ELSE result \o value

\* SimpleFetchClient._applyDefaultHeaders, _mergeHeaders: the updates in turn.
RECURSIVE mergeHeaders(_, _)
mergeHeaders(source, updates) ==
    IF updates = <<>> THEN source
    ELSE mergeHeaders(mergeValue(source, Head(updates)), Tail(updates))

\* SimpleFetchClient._fetchInternal: before this.#fetch(url, init) is called
\* the default headers still set are applied to init.
applyDefaultHeaders(k, k2) ==
    IF k2.calls > k.calls THEN [k2 EXCEPT !.headers = mergeHeaders(@, k2.defaults)]
    ELSE k2

\* The step's outcome; a call for which it has invoked the transport has
\* presented it with the headers merged at that point.
Commit(s) ==
    /\ call' = [c \in Calls |-> applyDefaultHeaders(call[c], s.call[c])]
    /\ active' = s.active
    /\ queue' = s.queue
    /\ breaker' = s.breaker
    /\ abortControllers' = s.ctrls

\* The signal the policies below the overall timeout see: signal0, or the
\* overall timeout's derived controller.
PolicySignalAborted(s, c) == s.call[c].aborted \/ s.call[c].outerDone

\* An error, or a response, as it travels up through the policies.
Err(kind) == [kind |-> kind, status |-> 0]

SettleMutant(s, c, res) ==
    IF s.call[c].outcome # "none" THEN s
    ELSE [s EXCEPT !.call[c].outcome = res]

\* ------------------------------------------------------------ results, outermost first
\* SimpleFetchClient.fetch: the caller's promise settles; result.finally drops
\* the call's controller from #abortControllers.
Settle(s, c, res) ==
    IF s.call[c].outcome # "none" THEN s
    ELSE [s EXCEPT !.call[c].outcome = res, !.ctrls = @ \ {c}]

\* ResilientFetchClient._fetchInternal: result.catch(...): a TaskCancelledError
\* of an aborted call is replaced by the signal's reason.
PipelineCatch(s, c, e) ==
    Settle(s, c, IF e.kind = "reason"
                    \/ (s.call[c].aborted /\ e.kind \in {"timeout", "cancelled"})
                 THEN "aborted"
                 ELSE IF e.kind = "ok" /\ e.status >= 400 THEN "okErr" ELSE e.kind)

\* The overall timeout (TimeoutStrategy.Aggressive): a race between the inner
\* policies and the timer; whatever comes second is dropped.
GlobalDone(s, c, e) ==
    IF ~HasGlobalTimeout THEN PipelineCatch(s, c, e)
    ELSE IF s.call[c].outerDone THEN s
    ELSE PipelineCatch([s EXCEPT !.call[c].outerDone = TRUE, !.call[c].totalDl = None], c, e)

\* The policies are done with a call: what _fetchInternal kept between the
\* attempts is dropped.
Finished(k) ==
    [k EXCEPT !.pc = "fin", !.attempt = 0, !.startTime = None, !.reqDl = None,
              !.wakeAt = None, !.sleepLive = FALSE, !.retryAfter = None,
              !.adapted = FALSE, !.brMode = "none"]

\* ResilientFetchClient.constructor: methods, with POST if retryConfig.retryPosts.
RetryMethods == DefaultRetryMethods \cup (IF cfg.retryPosts THEN {"POST"} ELSE {})

\* The retry handler of the constructor: which failures are retried.
RetryHandles(s, c, e) ==
    CASE e.kind = "http" -> e.status \in DefaultRetryCodes /\ e.method \in RetryMethods
      [] e.kind = "timeout" -> TRUE
      [] e.kind = "network" -> TRUE
      [] OTHER -> FALSE

RetryAllowedMutant(s, c) == s.call[c].attempt <= cfg.retries
\* RetryPolicy.execute: retries < maxAttempts.
RetryAllowed(s, c) == s.call[c].attempt < cfg.retries

\* RetryPolicy.execute after an attempt: back off and try again, or give up.
RetryResult(s, c, e, d) ==
    IF HasRetry /\ RetryHandles(s, c, e) /\ ~PolicySignalAborted(s, c) /\ RetryAllowed(s, c)
    THEN [s EXCEPT !.call[c].pc = "backoff", !.call[c].wakeAt = now + d,
                   !.call[c].attempt = @ + 1]
    ELSE GlobalDone([s EXCEPT !.call[c] = Finished(@)], c, e)

\* The circuit breaker's handler of the constructor: which failures count.
BreakerHandles(s, c, e) ==
    CASE e.kind = "http" -> e.status \in DefaultCircuitBreakerCodes
      [] e.kind = "timeout" -> TRUE
      [] e.kind = "network" -> TRUE
      [] OTHER -> FALSE

BulkheadHasSlotMutant(s) == s.active <= MaxParallel
\* BulkheadPolicy.execute: a slot is free.
BulkheadHasSlot(s) == s.active < MaxParallel

BulkheadHasRoomMutant(s) == Len(s.queue) <= MaxQueued
\* BulkheadPolicy.execute: the queue has room.
BulkheadHasRoom(s) == Len(s.queue) < MaxQueued

BreakerStillOpenMutant(s) == FALSE
\* CircuitBreakerPolicy.execute, state Open: halfOpenAfter has not elapsed.
BreakerStillOpen(s) == now - s.breaker.openedAt < HalfOpenAfter

RECURSIVE BulkheadExecute(_, _, _), BulkheadExit(_, _, _, _), BreakerExecute(_, _, _),
          BreakerResult(_, _, _, _), ReleaseWaiters(_, _), TimeoutExecute(_, _, _),
          TimeoutResult(_, _, _, _), FnStart(_, _, _), InvokeTransport(_, _, _)

\* BulkheadPolicy.execute's finally: free the slot, start the next waiter.
BulkheadExit(s, c, e, d) ==
    IF ~HasBulkhead THEN RetryResult(s, c, e, d)
    ELSE LET s1 == [s EXCEPT !.active = @ - 1] IN
         IF s1.queue = <<>> THEN RetryResult(s1, c, e, d)
         ELSE LET b == Head(s1.queue)
                  s2 == BulkheadExecute([s1 EXCEPT !.queue = Tail(@)], b, d)
              IN RetryResult(s2, c, e, d)

\* BulkheadPolicy.execute: take a slot, wait in the queue, or reject.
BulkheadExecute(s, c, d) ==
    IF ~HasBulkhead THEN BreakerExecute(s, c, d)
    ELSE IF PolicySignalAborted(s, c) THEN RetryResult(s, c, Err("cancelled"), d)
    ELSE IF BulkheadHasSlot(s)
         THEN BreakerExecute([s EXCEPT !.active = @ + 1], c, d)
    ELSE IF BulkheadHasRoom(s)
         THEN [s EXCEPT !.queue = Append(@, c), !.call[c].pc = "queued"]
    ELSE RetryResult(s, c, Err("bulkhead"), d)

\* CircuitBreakerPolicy.execute: by state.
BreakerExecute(s, c, d) ==
    IF ~HasBreaker THEN TimeoutExecute(s, c, d)
    ELSE LET tripped == s.breaker.count >= OpenAfter
                        /\ now - s.breaker.tripAt < HalfOpenAfter
             Note(how) == IF tripped THEN [s EXCEPT !.call[c].admitted = how] ELSE s
         IN CASE s.breaker.state = "closed" ->
                   TimeoutExecute([Note("passed") EXCEPT !.call[c].brMode = "closed"], c, d)
              [] s.breaker.state = "open" ->
                   IF BreakerStillOpen(s)
                   THEN BulkheadExit(Note("broken"), c, Err("broken"), d)
                   ELSE TimeoutExecute([Note("passed") EXCEPT !.breaker.state = "halfOpen",
                                                  !.call[c].brMode = "test"], c, d)
              [] OTHER -> [Note("wait") EXCEPT !.call[c].pc = "hoWait"]

\* CircuitBreakerPolicy.execute, state HalfOpen: the callers that awaited the
\* test run execute again once it has settled.
ReleaseWaiters(s, d) ==
    LET W == {w \in Calls : s.call[w].pc = "hoWait"} IN
    IF W = {} THEN s
    ELSE LET w == CHOOSE x \in W : \A y \in W : x <= y
             s1 == [s EXCEPT !.call[w].pc = "fin"]
             s2 == IF s1.breaker.state = "closed" /\ PolicySignalAborted(s1, w)
                   THEN BulkheadExit(s1, w, Err("cancelled"), d)
                   ELSE BreakerExecute(s1, w, d)
         IN ReleaseWaiters(s2, d)

\* CircuitBreakerPolicy.execute / halfOpen after the attempt: ConsecutiveBreaker
\* counts, the circuit opens or closes.
BreakerResult(s, c, e, d) ==
    IF ~HasBreaker THEN BulkheadExit(s, c, e, d)
    ELSE LET m == s.call[c].brMode
             fail == BreakerHandles(s, c, e)
             b == s.breaker
             b1 == IF e.kind = "ok" THEN [b EXCEPT !.count = 0]
                   ELSE IF fail
                        THEN [b EXCEPT !.count = @ + 1,
                                       !.tripAt = IF b.count + 1 = OpenAfter THEN now ELSE @]
                        ELSE b
             b2 == IF m = "test"
                   THEN IF fail THEN [b1 EXCEPT !.state = "open", !.openedAt = now]
                        ELSE [b1 EXCEPT !.state = "closed"]
                   ELSE IF fail /\ b1.count >= OpenAfter /\ b1.state # "open"
                        THEN [b1 EXCEPT !.state = "open", !.openedAt = now]
                        ELSE b1
             s1 == [s EXCEPT !.breaker = b2, !.call[c].brMode = "none"]
             s2 == IF m = "test" THEN ReleaseWaiters(s1, d) ELSE s1
         IN BulkheadExit(s2, c, e, d)

\* TimeoutPolicy.execute's finally (per-request timeout): the timer is cleared.
TimeoutResult(s, c, e, d) ==
    BreakerResult([s EXCEPT !.call[c].reqDl = None, !.call[c].wakeAt = None,
                            !.call[c].sleepLive = FALSE], c, e, d)

\* SimpleFetchClient._fetchInternal: this.#fetch(url, init).
InvokeTransport(s, c, d) ==
    LET s1 == [s EXCEPT !.call[c].calls = @ + 1, !.call[c].wakeAt = None,
                        !.call[c].sleepLive = FALSE,
                        !.call[c].lateCall = @ \/ s.call[c].aborted]
    IN IF PolicySignalAborted(s, c)
       THEN TimeoutResult(s1, c, Err("reason"), d)
       ELSE [s1 EXCEPT !.call[c].pc = "inflight"]

RetryAfterDiffMutant(k) == [diff |-> 0, clamp |-> FALSE]
RetryAfterDiffTwice(k) ==
    LET diff0 == k.retryAfter - now
        avail == cfg.timeoutTotal - (now - k.startTime)
        clamp == diff0 > 0 /\ cfg.timeoutTotal > 0
                 /\ avail > 0 /\ avail - SafetyMargin < diff0
        safety == IF avail > SafetyMargin THEN SafetyMargin ELSE avail
    IN [diff |-> IF clamp THEN avail - safety ELSE diff0, clamp |-> clamp]
\* ResilientFetchClient._fetchInternal, the function given to the policy: an
\* instant left by a Retry-After header is waited for, then the transport is called.
RetryAfterDiff(k) ==
    LET diff0 == k.retryAfter - now
        avail == cfg.timeoutTotal - (now - k.startTime)
        clamp == diff0 > 0 /\ cfg.timeoutTotal > 0 /\ ~k.adapted
                 /\ avail > 0 /\ avail - SafetyMargin < diff0
        safety == IF avail > SafetyMargin THEN SafetyMargin ELSE avail
    IN [diff |-> IF clamp THEN avail - safety ELSE diff0, clamp |-> clamp]

FnStart(s, c, d) ==
    LET k == s.call[c] IN
    IF k.retryAfter = None THEN InvokeTransport(s, c, d)
    ELSE LET r == RetryAfterDiff(k)
             s1 == [s EXCEPT !.call[c].retryAfter = None,
                             !.call[c].adapted = k.adapted \/ r.clamp]
         IN IF r.diff > 0
            THEN [s1 EXCEPT !.call[c].pc = "raSleep", !.call[c].wakeAt = now + r.diff,
                            !.call[c].sleepLive = ~PolicySignalAborted(s, c)]
            ELSE InvokeTransport(s1, c, d)

\* The function given to the policy when the per-request timeout's race is lost
\* before it starts (the signal is aborted already): it runs all the same, but
\* no policy waits for it.
FnStartDetached(s, c) ==
    LET k == s.call[c] IN
    IF k.retryAfter = None
    THEN [s EXCEPT !.call[c].calls = @ + 1, !.call[c].lateCall = @ \/ k.aborted]
    ELSE LET r == RetryAfterDiff(k)
             s1 == [s EXCEPT !.call[c].retryAfter = None,
                             !.call[c].adapted = k.adapted \/ r.clamp]
         IN IF r.diff > 0 THEN [s1 EXCEPT !.call[c].bgWake = now + r.diff]
            ELSE [s1 EXCEPT !.call[c].calls = @ + 1, !.call[c].lateCall = @ \/ k.aborted]

\* TimeoutPolicy.execute (per-request timeout, TimeoutStrategy.Aggressive).
TimeoutExecute(s, c, d) ==
    IF ~HasTimeout THEN FnStart(s, c, d)
    ELSE IF PolicySignalAborted(s, c)
         THEN TimeoutResult(FnStartDetached(s, c), c, Err("timeout"), d)
    ELSE FnStart([s EXCEPT !.call[c].reqDl = now + cfg.timeoutRequest], c, d)

\* The derived signal of a call fires: a transport call in flight returns, a
\* Retry-After sleep with a listener is rejected.
InnerAbort(s, c, d) ==
    IF s.call[c].pc = "inflight" \/ (s.call[c].pc = "raSleep" /\ s.call[c].sleepLive)
    THEN TimeoutResult(s, c, IF HasTimeout THEN Err("timeout") ELSE Err("reason"), d)
    ELSE s

\* ------------------------------------------------------------ abort
\* The listeners of a call's derived signal (SimpleFetchClient.
\* _derivedSignalController) run: the overall timeout's race rejects first, then
\* whatever the call is waiting for inside the policies is interrupted.
AbortReact(s, c, d) ==
    LET s2 == IF HasGlobalTimeout /\ ~s.call[c].outerDone
              THEN PipelineCatch([s EXCEPT !.call[c].outerDone = TRUE,
                                           !.call[c].totalDl = None],
                                 c, Err("timeout"))
              ELSE s
    IN InnerAbort(s2, c, d)

\* AbortController.abort of one call's controller.
AbortOne(s, c, d) ==
    IF s.call[c].aborted THEN s
    ELSE AbortReact([s EXCEPT !.call[c].aborted = TRUE], c, d)

RECURSIVE AbortEach(_, _, _)
AbortEach(s, S, d) ==
    IF S = {} THEN s
    ELSE LET c == CHOOSE x \in S : \A y \in S : x <= y
         IN AbortEach(AbortReact(s, c, d), S \ {c}, d)

RECURSIVE MarkAborted(_, _)
MarkAborted(s, S) ==
    IF S = {} THEN s
    ELSE LET c == CHOOSE x \in S : TRUE
         IN MarkAborted([s EXCEPT !.call[c].aborted = TRUE], S \ {c})

\* SimpleFetchClient.abortAll: every controller is aborted in the loop, the
\* promise reactions of the aborted calls run after it; the list is emptied.
abortAll(s) ==
    LET fresh == {c \in s.ctrls : ~s.call[c].aborted}
        s1 == MarkAborted(s, s.ctrls)
        s2 == AbortEach(s1, fresh, 0)
    IN [s2 EXCEPT !.ctrls = {}]

Unsettled(c) == call[c].pc # "idle" /\ call[c].outcome = "none"

\* ------------------------------------------------------------ caching: state
\* A CachedObject (cache.ts) of the backend: the JSON value (0 is a falsy one),
\* the ETag its headers hold (0: none), and of cacheControl the directives
\* max-age, stale-while-revalidate and stale-if-error in seconds, None where
\* the response carried none.
NoEntry ==
    [present |-> FALSE, value |-> 0, updated |-> 0, maxAge |-> None, etag |-> 0,
     staleWhileRevalidate |-> None, staleIfError |-> None, mustRevalidate |-> FALSE]

IdleCaching ==
    [pc |-> "idle",          \* idle, cacheWait, lookup, delegate, fallback,
                             \* raceCache, done
     mode |-> "none",        \* useCache: bypass (no key), cacheControl, fetchFirst,
                             \* race
     lookup |-> "none",      \* race mode, cacheResult: pending, hit (a Stale entry
                             \* without stale-while-revalidate), miss, failed
     update |-> FALSE,       \* useCache.update
     skip |-> FALSE,         \* init.skipFailOnErrorCode
     skipContentType |-> FALSE,      \* init.skipContentTypeHeaderValidation
     error |-> "none",       \* what the delegate's request failed with, kept for
                             \* the lookup that follows the failure
     result |-> "none",      \* what fetchJson settled with: cached, noUpdate,
                             \* cacheError, wrapped (an object whose value is a
                             \* whole result), or the delegate's outcome
     value |-> None,         \* the value of the JsonResult it resolved with
     upd |-> "absent",       \* the update field of that result: absent, pending,
                             \* value, noUpdate, the error it rejected with, or
                             \* notPromise (a NoUpdateError object)
     found |-> NoEntry,      \* cacheResult
     state |-> "none",       \* cacheState.state: DISABLED, FRESH, STALE
     staleWhileRevalidate |-> FALSE,     \* cacheState.staleWhileRevalidate
     staleIfError |-> FALSE,             \* cacheState.staleIfError
     conditional |-> FALSE,  \* useConditionalRequest
     noStore |-> FALSE,      \* the headers of the delegate's result hold
                             \* Cache-Control: no-store
     json |-> TRUE,          \* the Content-Type of that response is a JSON one
     status |-> 0,           \* status of the response the delegate settled with
                             \* (resp.status, or details.status of the HttpError)
     aborted |-> FALSE,      \* the caller's signal has fired
     write |-> NoEntry,      \* cache.set under way (_updateCache)
     afterClose |-> FALSE,   \* issued after close() had been called
     byAbortAll |-> FALSE]   \* unsettled when abortAll was called

\* What is observed of one call from outside the client.
Unseen ==
    [until |-> None,         \* the instant a Retry-After header named for the next attempt
     early |-> FALSE,        \* that attempt's transport call was started before it
     honoured |-> FALSE,     \* that attempt's transport call was started after a sleep
     clamps |-> 0,           \* Retry-After delays slept shorter than the header asked
     retried |-> None]       \* status of an HTTP error after which a retry was scheduled

Providers == 1..NProviders
Tables == 1..NTables
Requests == 1..NRequests

\* CachingClient before the first request with useCache: no backend, no factory.
IdleLoading ==
    [caches |-> [id \in Providers, t \in Tables |-> "none"],
                             \* #caches: the promise of the backend of a provider
                             \* and table: none, pending, ready, unavailable
                             \* (available() is false), failed
     factories |-> [id \in Providers |-> FALSE],       \* #cacheFactories.has(id)
     promised |-> [id \in Providers |-> FALSE],        \* #cacheFactoryPromises.has(id)
     loader |-> [id \in Providers |-> "none"],
                             \* the promise the loader returned: none (not
                             \* invoked), pending, resolved, rejected
     waiting |-> [id \in Providers, t \in Tables |-> "none"],
                             \* _loadCacheFactory of _loadCache(id, t): awaiting
                             \* the loader it invoked (first) or found (cached),
                             \* or returned with the factory it found (loaded)
     loads |-> [id \in Providers |-> 0],               \* invocations of the loader
     created |-> [id \in Providers, t \in Tables |-> 0],   \* factory.create(t) calls
     req |-> [r \in Requests |-> [pc |-> "idle", table |-> 0, at |-> 0, cache |-> 0]]]
                             \* _getAvailableCache of a request: idle, await
                             \* (the backend of provider at), done (with the
                             \* backend of provider cache, 0: undefined)

\* ------------------------------------------------------------ actions
InitSeeded(configs, entries) ==
    /\ cfg \in configs
    /\ now = 0
    /\ closed = FALSE
    /\ abortControllers = {}
    /\ call = [c \in Calls |-> IdleCall]
    /\ active = 0
    /\ queue = <<>>
    /\ breaker = [state |-> "closed", count |-> 0, openedAt |-> None, tripAt |-> None]
    /\ closer = [pc |-> "none", timeout |-> None, start |-> None, wake |-> None,
                 abortedAt |-> None]
    /\ ccall = [c \in Calls |-> IdleCaching]
    /\ cache \in entries
    /\ seen = [c \in Calls |-> Unseen]
    /\ loading = IdleLoading

\* A client that starts with an empty cache.
InitWith(configs) == InitSeeded(configs, {NoEntry})

\* SimpleFetchClient.fetch (and, for the resilient client, the start of
\* ResilientFetchClient._fetchInternal); pre: the caller's signal is aborted
\* already.
fetchInput(s, c, skip, pre, m, via) ==
    IF closed
    THEN [s EXCEPT !.call[c].outcome = "closed"]
    ELSE LET s1 == [s EXCEPT !.ctrls = @ \cup {c},
                             !.call[c].skip = skip,
                             !.call[c].method = m,
                             !.call[c].viaRequest = via,
                             !.call[c].aborted = pre,
                             !.call[c].startTime =
                                 IF cfg.timeoutTotal > 0 THEN now ELSE None,
                             !.call[c].totalDl =
                                 IF HasGlobalTimeout THEN now + cfg.timeoutTotal ELSE None]
         IN BulkheadExecute(s1, c, 0)

\* fetch(url, init) without init.method: a GET.
fetch(s, c, skip, pre) == fetchInput(s, c, skip, pre, "GET", FALSE)

\* The user calls fetch (or fetchJson) on the simple or the resilient client.
Fetch(c, skip) ==
    /\ call[c].pc = "idle" /\ call[c].outcome = "none"
    /\ \A b \in Calls : b < c => call[b].pc # "idle" \/ call[b].outcome # "none"
    /\ Commit(fetch(Cur, c, skip, FALSE))
    /\ UNCHANGED <<cfg, now, closed, closer>>

\* SimpleFetchClient._fetchInternal after await this.#fetch, then the rest of
\* the function ResilientFetchClient._fetchInternal gives to the policy.
HandleResponse(s, c, resp) ==
    LET ok == resp.status >= 200 /\ resp.status < 300    \* Response.ok
        throwSimple == ~ok /\ ~skipFailOnErrorCodeField(cfg) /\ ~s.call[c].skip
        \* SimpleFetchClient._throwHttpError: method: init?.method || "GET"
        http == [kind |-> "http", status |-> resp.status,
                 method |-> IF s.call[c].viaRequest THEN "GET" ELSE s.call[c].method]
        good == [kind |-> "ok", status |-> resp.status]
        \* super._fetchInternal has returned: defaultHeaders = undefined
        returned == [s EXCEPT !.call[c].defaults = <<>>]
    IN IF useSimpleClient(cfg)
       THEN [s |-> s, e |-> IF throwSimple THEN http ELSE good]
       ELSE IF throwSimple /\ resp.status \notin RetryAfterCodes
            THEN [s |-> s, e |-> http]
       ELSE IF resp.status \in RetryAfterCodes
            THEN [s |-> [returned EXCEPT !.call[c].retryAfter =
                            IF resp.retryAfter = None THEN None ELSE now + resp.retryAfter],
                  e |-> http]
       ELSE [s |-> returned, e |-> good]

\* The transport answers a call in flight.
TransportResponds(c, resp, d) ==
    /\ call[c].pc = "inflight"
    /\ LET h == HandleResponse(Cur, c, resp)
       IN Commit(TimeoutResult(h.s, c, h.e, d))
    /\ UNCHANGED <<cfg, now, closed, closer>>

\* The transport fails with a network error (a TypeError).
TransportFails(c, d) ==
    /\ call[c].pc = "inflight"
    /\ Commit(TimeoutResult(Cur, c, Err("network"), d))
    /\ UNCHANGED <<cfg, now, closed, closer>>

\* The per-request timer fires: the attempt's signal is aborted, the race of
\* the aggressive timeout rejects with "Operation timed out".
RequestTimeout(c, d) ==
    /\ call[c].reqDl # None /\ call[c].reqDl <= now
    /\ Commit(TimeoutResult(Cur, c, Err("timeout"), d))
    /\ UNCHANGED <<cfg, now, closed, closer>>

\* The overall timer fires: the caller's promise rejects, the inner policies
\* see their signal aborted.
TotalTimeout(c) ==
    /\ call[c].totalDl # None /\ call[c].totalDl <= now
    /\ LET s1 == PipelineCatch([Cur EXCEPT !.call[c].outerDone = TRUE,
                                           !.call[c].totalDl = None], c, Err("timeout"))
       IN Commit(InnerAbort(s1, c, 0))
    /\ UNCHANGED <<cfg, now, closed, closer>>

\* RetryPolicy.execute: the backoff delay is over, the next attempt starts.
BackoffWake(c) ==
    /\ call[c].pc = "backoff" /\ call[c].wakeAt <= now
    /\ Commit(BulkheadExecute([Cur EXCEPT !.call[c].wakeAt = None], c, 0))
    /\ UNCHANGED <<cfg, now, closed, closer>>

\* The Retry-After sleep is over: the transport is called.
RetryAfterWake(c) ==
    /\ call[c].pc = "raSleep" /\ call[c].wakeAt <= now
    /\ Commit(InvokeTransport(Cur, c, 0))
    /\ UNCHANGED <<cfg, now, closed, closer>>

\* A Retry-After sleep no policy waits for is over: the transport is called
\* with its aborted signal and returns at once.
DetachedWake(c) ==
    /\ call[c].bgWake # None /\ call[c].bgWake <= now
    /\ call' = [call EXCEPT ![c].bgWake = None, ![c].calls = @ + 1,
                             ![c].lateCall = @ \/ call[c].aborted,
                             ![c].headers = mergeHeaders(@, call[c].defaults)]
    /\ UNCHANGED <<cfg, now, closed, closer, abortControllers, active, queue, breaker>>

\* The caller's own abort signal fires.
Abort(c) ==
    /\ Unsettled(c) /\ ~call[c].aborted
    /\ Commit(AbortOne(Cur, c, 0))
    /\ UNCHANGED <<cfg, now, closed, closer>>

\* The user calls abortAll(reason).
AbortAll ==
    /\ \E c \in Calls : Unsettled(c)
    /\ Commit(abortAll(Cur))
    /\ UNCHANGED <<cfg, now, closed, closer>>

\* SimpleFetchClient.close up to its first await.
Close(timeout) ==
    /\ closer.pc = "none"
    /\ closed' = TRUE
    /\ IF timeout = 0 \/ abortControllers = {}
       THEN /\ Commit(abortAll(Cur))
            /\ closer' = [closer EXCEPT !.pc = "resolved", !.timeout = timeout,
                              !.start = now,
                              !.abortedAt = IF abortControllers # {} THEN now ELSE None]
       ELSE /\ Commit(Cur)
            /\ closer' = [closer EXCEPT !.pc = "polling", !.timeout = timeout,
                              !.start = now, !.wake = now + Step]
    /\ UNCHANGED <<cfg, now>>

\* SimpleFetchClient.close: one turn of the polling loop.
ClosePoll ==
    /\ closer.pc = "polling" /\ closer.wake <= now
    /\ IF abortControllers = {}
       THEN /\ Commit(Cur)
            /\ closer' = [closer EXCEPT !.pc = "resolved", !.wake = None]
       ELSE IF closer.timeout = None \/ now - closer.start < closer.timeout + Step
       THEN /\ Commit(Cur)
            /\ closer' = [closer EXCEPT !.wake = now + Step]
       ELSE /\ Commit(abortAll(Cur))
            /\ closer' = [closer EXCEPT !.pc = "resolved", !.wake = None,
                                        !.abortedAt = now]
    /\ UNCHANGED <<cfg, now, closed>>

Due(t) == t # None /\ t <= now

\* Time passes; a timer that is due fires first.
Tick ==
    /\ now < MaxTime
    /\ \A c \in Calls :
          /\ ~Due(call[c].totalDl) /\ ~Due(call[c].reqDl)
          /\ ~Due(call[c].wakeAt) /\ ~Due(call[c].bgWake)
    /\ ~Due(closer.wake)
    /\ now' = now + 1
    /\ UNCHANGED <<cfg, closed, abortControllers, call, active, queue, breaker, closer>>

Init == InitWith(ResilientConfigs)

Next ==
    \/ \E c \in Users, skip \in BOOLEAN : Fetch(c, skip) /\ UNCHANGED <<cvars, ovars>>
    \/ \E c \in Calls, resp \in Responses, d \in 1..MaxBackoff : TransportResponds(c, resp, d) /\ UNCHANGED <<cvars, ovars>>
    \/ \E c \in Calls, d \in 1..MaxBackoff : TransportFails(c, d) /\ UNCHANGED <<cvars, ovars>>
    \/ \E c \in Calls, d \in 1..MaxBackoff : RequestTimeout(c, d) /\ UNCHANGED <<cvars, ovars>>
    \/ \E c \in Calls : TotalTimeout(c) /\ UNCHANGED <<cvars, ovars>>
    \/ \E c \in Calls : BackoffWake(c) /\ UNCHANGED <<cvars, ovars>>
    \/ \E c \in Calls : RetryAfterWake(c) /\ UNCHANGED <<cvars, ovars>>
    \/ \E c \in Calls : DetachedWake(c) /\ UNCHANGED <<cvars, ovars>>
    \/ \E c \in Calls : Abort(c) /\ UNCHANGED <<cvars, ovars>>
    \/ AbortAll /\ UNCHANGED <<cvars, ovars>>
    \/ Tick /\ UNCHANGED <<cvars, ovars>>

Spec == Init /\ [][Next]_vars

\* The request context alone: the simple client and its close().
InitClose == InitWith(SimpleConfigs)

NextClose ==
    \/ \E c \in Users, skip \in BOOLEAN : Fetch(c, skip) /\ UNCHANGED <<cvars, ovars>>
    \/ \E c \in Calls, resp \in Responses : TransportResponds(c, resp, 0) /\ UNCHANGED <<cvars, ovars>>
    \/ \E c \in Calls : TransportFails(c, 0) /\ UNCHANGED <<cvars, ovars>>
    \/ \E c \in Calls : Abort(c) /\ UNCHANGED <<cvars, ovars>>
    \/ AbortAll /\ UNCHANGED <<cvars, ovars>>
    \/ \E t \in {None} \cup 0..MaxCloseTimeout : Close(t) /\ UNCHANGED <<cvars, ovars>>
    \/ ClosePoll /\ UNCHANGED <<cvars, ovars>>
    \/ Tick /\ UNCHANGED <<cvars, ovars>>

SpecClose == InitClose /\ [][NextClose]_vars

\* ------------------------------------------------------------ caching: CachingClient
\* What the transport answers to a fetchJson: a status, a JSON value (0 is a
\* falsy one), the ETag header that comes with it (0: none), and of its Cache-Control
\* header the directives max-age, stale-while-revalidate, stale-if-error (in
\* seconds) and no-store.
Answer(st, v, ma, et, swr, sie, ns) ==
    [status |-> st, retryAfter |-> None, value |-> v, maxAge |-> ma, etag |-> et,
     staleWhileRevalidate |-> swr, staleIfError |-> sie, noStore |-> ns,
     mustRevalidate |-> FALSE, json |-> TRUE]

\* The same answer with must-revalidate among the directives.
MustRevalidate(resp) == [resp EXCEPT !.mustRevalidate = TRUE]

\* The same answer with a Content-Type that is not a JSON one (or none).
NonJson(resp) == [resp EXCEPT !.json = FALSE]

CacheResponses ==
    {Answer(st, v, ma, 0, None, None, FALSE) :
        st \in {200, 500}, v \in {0, 1}, ma \in {None, 0}}
    \cup {Answer(200, 1, None, 0, None, None, TRUE)}

NoResponse == Answer(0, 0, None, 0, None, None, FALSE)

CacheModes == {"bypass", "cacheControl", "fetchFirst"}

FreshUntilMutant(validUntil) == now < validUntil

\* CachingClient._cacheState: now <= validUntil.
FreshUntil(validUntil) == now <= validUntil

cacheStateLenient(entry) ==
    LET validUntil == entry.updated + entry.maxAge * Second
        fresh == entry.maxAge = None \/ FreshUntil(validUntil)
    IN [state |-> IF fresh THEN "FRESH" ELSE "STALE",
        staleWhileRevalidate |->
            /\ ~fresh /\ entry.staleWhileRevalidate # None
            /\ validUntil + entry.staleWhileRevalidate * Second >= now,
        staleIfError |-> ~fresh]

cacheStateStrict(entry) ==
    LET validUntil == entry.updated + entry.maxAge * Second
        fresh == entry.maxAge = None \/ FreshUntil(validUntil)
    IN [state |-> IF fresh THEN "FRESH" ELSE "STALE",
        staleWhileRevalidate |->
            /\ ~fresh /\ entry.staleWhileRevalidate # None
            /\ validUntil + entry.staleWhileRevalidate * Second >= now,
        staleIfError |-> FALSE]

cacheStateMutant(entry) ==
    LET validUntil == entry.updated + entry.maxAge * Second
    IN [state |-> IF entry.maxAge = None \/ FreshUntil(validUntil) THEN "FRESH" ELSE "STALE",
        staleWhileRevalidate |-> FALSE, staleIfError |-> FALSE]

\* CachingClient._cacheState for an entry of the cache, whose cacheControl
\* holds neither no-store nor no-cache, and a request without
\* defaultCacheControl and forcedCacheControl.
cacheState(entry) ==
    LET validUntil == entry.updated + entry.maxAge * Second
        relaxed(r) == r # None /\ validUntil + r * Second >= now
        unrelaxed == [state |-> "STALE", staleWhileRevalidate |-> FALSE,
                      staleIfError |-> FALSE]
    IN IF entry.maxAge # None /\ entry.maxAge <= 0 /\ entry.mustRevalidate
       THEN unrelaxed       \* counts as no-cache
       ELSE IF entry.maxAge = None \/ FreshUntil(validUntil)
       THEN [state |-> "FRESH", staleWhileRevalidate |-> FALSE, staleIfError |-> FALSE]
       ELSE IF entry.mustRevalidate THEN unrelaxed
       ELSE [state |-> "STALE",
             staleWhileRevalidate |-> relaxed(entry.staleWhileRevalidate),
             staleIfError |-> relaxed(entry.staleIfError)]

\* CachingClient._evaluateCacheControl: max-age below 0 counts as 0; the stale-*
\* directives count if above 0.
evaluateCacheControl(resp) ==
    LET positive(r) == IF r # None /\ r > 0 THEN r ELSE None
    IN [maxAge |-> IF resp.maxAge = None THEN None
                   ELSE IF resp.maxAge <= 0 THEN 0 ELSE resp.maxAge,
        staleWhileRevalidate |-> positive(resp.staleWhileRevalidate),
        staleIfError |-> positive(resp.staleIfError),
        noStore |-> resp.noStore,
        mustRevalidate |-> resp.mustRevalidate]

updateCacheMutant(resp) ==
    IF resp.value = 0 THEN NoEntry ELSE
    [present |-> TRUE, value |-> resp.value, updated |-> now,
     maxAge |-> evaluateCacheControl(resp).maxAge, etag |-> resp.etag,
     staleWhileRevalidate |-> evaluateCacheControl(resp).staleWhileRevalidate,
     staleIfError |-> evaluateCacheControl(resp).staleIfError,
     mustRevalidate |-> evaluateCacheControl(resp).mustRevalidate]

\* CachingClient._updateCache: a falsy value is not written, nor is a response
\* whose cache state is DISABLED (no-store); MemoryCache.set stamps the entry
\* with Date.now().
updateCache(resp) ==
    LET cacheControl == evaluateCacheControl(resp)
    IN IF resp.value = 0 \/ cacheControl.noStore THEN NoEntry
       ELSE [present |-> TRUE, value |-> resp.value, updated |-> now,
             maxAge |-> cacheControl.maxAge, etag |-> resp.etag,
             staleWhileRevalidate |-> cacheControl.staleWhileRevalidate,
             staleIfError |-> cacheControl.staleIfError,
             mustRevalidate |-> cacheControl.mustRevalidate]

CachingUnsettled(c) == ccall[c].pc # "idle" /\ ccall[c].result = "none"

\* SimpleFetchClient.fetchJson, after await this.fetch(input, init) has
\* settled with out: the Content-Type validation.
validateContentType(k, out, resp) ==
    IF out \in {"ok", "okErr"} /\ ~k.skipContentType /\ ~resp.json
    THEN "contentType" ELSE out

\* CachingClient.fetchJson: resultPromise, once the delegate's request has
\* settled with out: the reaction to a 304 of the conditional request, or the
\* JSON value, written through.
resultPromise(k, out, resp) ==
    IF out \notin {"ok", "okErr"}
    THEN [kind |-> out, value |-> None, write |-> NoEntry]
    ELSE IF k.conditional /\ resp.status = 304
    THEN IF k.update THEN [kind |-> "noUpdate", value |-> None, write |-> NoEntry]
         ELSE [kind |-> "cached", value |-> k.found.value, write |-> NoEntry]
    \* this._delegate.fetch of the conditional request validates nothing
    ELSE IF ~k.conditional /\ validateContentType(k, out, resp) # out
    THEN [kind |-> "contentType", value |-> None, write |-> NoEntry]
    ELSE [kind |-> out, value |-> resp.value,
          write |-> IF k.mode = "bypass" THEN NoEntry ELSE updateCache(resp)]

StaleIfErrorCatchesMutant(out, resp) == out \in {"http", "network"}

\* CachingClient.fetchJson: the errors the staleIfError catch answers with the
\* cached value: an HttpError of status >= 500, or a network error.
StaleIfErrorCatches(out, resp) ==
    (out = "http" /\ resp.status >= 500) \/ out = "network"

\* CachingClient.fetchJson, race mode: what the fetch's result, or the entry
\* kept for the case that the fetch fails, becomes for a Stale entry without
\* stale-while-revalidate (base, and the reaction to it with update set).
RaceStale(k, out, status, value) ==
    LET ok == out \in {"ok", "okErr"}
        caught == k.staleIfError /\ StaleIfErrorCatches(out, [status |-> status])
    IN IF ~ok /\ ~caught THEN [k EXCEPT !.pc = "done", !.result = out]
       ELSE IF k.update
       THEN [k EXCEPT !.pc = "done", !.result = "wrapped", !.upd = "notPromise"]
       ELSE IF ok THEN [k EXCEPT !.pc = "done", !.result = out, !.value = value]
       ELSE [k EXCEPT !.pc = "done", !.result = "cached", !.value = k.found.value]

\* CachingClient.fetchJson, race mode: the reactions to fetchResult, settled
\* with out.
RaceFetchSettled(k, out, resp) ==
    LET ok == out \in {"ok", "okErr"}
        k1 == [k EXCEPT !.pc = "done", !.status = resp.status, !.json = resp.json,
                        !.write = IF ok THEN updateCache(resp) ELSE NoEntry,
                        !.noStore = ok /\ resp.noStore]
        fetched == [k1 EXCEPT !.result = out, !.value = resp.value, !.lookup = "none",
                              !.upd = IF k.update THEN "noUpdate" ELSE "absent"]
        \* updatePromise: ETag against ETag if both are there, else the values
        equal == IF resp.etag # 0 /\ k.found.etag # 0 THEN resp.etag = k.found.etag
                 ELSE resp.value = k.value
    IN IF k.result # "none"       \* the cached entry was returned before
       THEN [k1 EXCEPT !.upd = IF ~k.update THEN "absent"
                                ELSE IF ~ok THEN out
                                ELSE IF equal THEN "noUpdate" ELSE "value"]
       ELSE IF k.lookup = "pending"
       THEN IF ok THEN fetched
            ELSE [k EXCEPT !.pc = "raceCache", !.status = resp.status, !.error = out,
                           !.json = resp.json]
       ELSE IF k.lookup = "failed"
       THEN IF ok THEN fetched ELSE [k1 EXCEPT !.result = "cacheError"]
       ELSE IF k.lookup = "miss"
       THEN IF ok THEN fetched ELSE [k1 EXCEPT !.result = out]
       ELSE RaceStale(k1, out, resp.status, resp.value)

\* The reactions CachingClient.fetchJson attached to the delegate's promise,
\* for the call whose delegate request has settled with out.
AfterDelegate(k, out, resp) ==
    LET r == resultPromise(k, out, resp)
        failed == r.kind \notin {"ok", "okErr", "cached"}
        k1 == [k EXCEPT !.pc = "done", !.write = r.write,
                        !.noStore = out \in {"ok", "okErr"} /\ resp.noStore,
                        !.status = resp.status, !.json = resp.json]
        settle(kind, v, u) == [k1 EXCEPT !.result = kind, !.value = v, !.upd = u]
        noUpdate == IF k.update THEN "noUpdate" ELSE "absent"
    IN IF k.mode = "race" THEN RaceFetchSettled(k, validateContentType(k, out, resp), resp)
       ELSE IF k.mode = "fetchFirst" /\ failed
       THEN [k EXCEPT !.pc = "fallback", !.error = r.kind, !.json = resp.json,
                      !.status = resp.status]
       ELSE IF k.mode # "cacheControl" THEN settle(r.kind, r.value, "absent")
       ELSE IF k.result # "none"
            \* staleWhileRevalidate: the cached value was returned before
       THEN [k1 EXCEPT !.upd = IF ~k.update THEN "absent"
                                ELSE IF failed THEN r.kind ELSE "value"]
       ELSE IF k.state = "DISABLED"
       THEN settle(r.kind, r.value, IF failed THEN "absent" ELSE noUpdate)
       ELSE IF k.staleIfError /\ StaleIfErrorCatches(out, resp)
       THEN settle("cached", k.found.value, noUpdate)
       ELSE settle(r.kind, r.value, "absent")

\* The caching layer's share of an event of the delegate: k maps the calls to
\* their caching state before the reactions run.
RECURSIVE Reactions(_, _, _, _)
Reactions(k, S, after, resp) ==
    IF S = {} THEN k
    ELSE LET c == CHOOSE x \in S : \A y \in S : x <= y
             k1 == IF k[c].pc = "delegate" /\ after[c].outcome # "none"
                   THEN [k EXCEPT ![c] = AfterDelegate(k[c], after[c].outcome, resp)]
                   ELSE k
         IN Reactions(k1, S \ {c}, after, resp)

CacheLayer(k, resp) == ccall' = Reactions(k, Calls, call', resp)

\* this._delegate.fetchJson(input, init2), or this._delegate.fetch(input, init2)
\* of the conditional request, for call c.
Delegate(k, c) ==
    /\ Commit(fetch(Cur, c, k[c].skip, k[c].aborted))
    /\ CacheLayer([k EXCEPT ![c].pc = "delegate"], NoResponse)

\* The user calls fetchJson on the caching client: up to the first await.
fetchJsonInit(c, mode, update, skip, skipContentType) ==
    /\ ccall[c].pc = "idle"
    /\ \A b \in Calls : b < c => ccall[b].pc # "idle"
    /\ LET k == [ccall EXCEPT ![c].mode = mode, ![c].afterClose = closed,
                              ![c].update = update, ![c].skip = skip,
                              ![c].skipContentType = skipContentType]
       IN IF mode = "bypass"
          THEN Delegate(k, c)
          ELSE /\ ccall' = [k EXCEPT ![c].pc = "cacheWait"]
               /\ UNCHANGED <<abortControllers, call, active, queue, breaker>>
    /\ UNCHANGED <<cfg, now, closed, closer, cache>>

\* fetchJson without init.skipContentTypeHeaderValidation.
fetchJson(c, mode, update, skip) == fetchJsonInit(c, mode, update, skip, FALSE)

\* fetchJson without useCache.update and init.skipFailOnErrorCode.
CachingFetchJson(c, mode) == fetchJson(c, mode, FALSE, FALSE)

\* await this._getAvailableCache(...) returns the cache.
CacheAvailable(c) ==
    /\ ccall[c].pc = "cacheWait"
    /\ IF ccall[c].mode = "cacheControl"
       THEN /\ ccall' = [ccall EXCEPT ![c].pc = "lookup"]
            /\ UNCHANGED <<abortControllers, call, active, queue, breaker>>
       ELSE Delegate([ccall EXCEPT ![c].lookup =
                         IF ccall[c].mode = "race" THEN "pending" ELSE "none"], c)
    /\ UNCHANGED <<cfg, now, closed, closer, cache>>

\* await cache.get(key) returns: the cacheControl mode's lookup and the
\* dispatch on the cache state that follows it, or the lookup the fetchFirst
\* mode makes once the fetch has failed.
CacheGetReturns(c) ==
    /\ ccall[c].pc \in {"lookup", "fallback"}
    /\ LET k == ccall[c]
           st == cacheState(cache)
           cachedAvailable == cache.present /\ cache.value # 0
           cached == [k EXCEPT !.pc = "done", !.result = "cached", !.value = cache.value]
           stale == [k EXCEPT !.found = cache, !.state = "STALE",
                              !.staleWhileRevalidate = st.staleWhileRevalidate,
                              !.staleIfError = st.staleIfError,
                              !.conditional = cache.etag # 0]
           \* a closed delegate's fetch throws before fetchJson gets as far as
           \* returning the cached value
           early == st.staleWhileRevalidate /\ ~(closed /\ cache.etag # 0)
       IN IF k.pc = "fallback"
          THEN /\ ccall' = [ccall EXCEPT ![c] =
                               IF cache.present /\ (st.state = "FRESH" \/ st.staleIfError)
                               THEN cached
                               ELSE [k EXCEPT !.pc = "done", !.result = k.error]]
               /\ UNCHANGED <<abortControllers, call, active, queue, breaker>>
          ELSE IF ~cachedAvailable
          THEN Delegate([ccall EXCEPT ![c].state = "DISABLED"], c)
          ELSE IF st.state = "FRESH"
          THEN /\ ccall' = [ccall EXCEPT ![c] =
                               [cached EXCEPT !.found = cache, !.state = "FRESH",
                                   !.upd = IF k.update THEN "noUpdate" ELSE "absent"]]
               /\ UNCHANGED <<abortControllers, call, active, queue, breaker>>
          ELSE Delegate([ccall EXCEPT ![c] =
                            IF early
                            THEN [stale EXCEPT !.result = "cached", !.value = cache.value,
                                     !.upd = IF k.update THEN "pending" ELSE "absent"]
                            ELSE stale], c)
    /\ UNCHANGED <<cfg, now, closed, closer, cache>>

\* Race mode: cache.get(key) resolves, before the fetch has settled or after
\* it has failed.
RaceCacheGetReturns(c) ==
    /\ ccall[c].mode = "race" /\ ccall[c].lookup = "pending"
    /\ LET k == ccall[c]
           st == cacheState(cache)
           hit == [k EXCEPT !.lookup = "hit", !.found = cache, !.state = st.state,
                            !.staleWhileRevalidate = st.staleWhileRevalidate,
                            !.staleIfError = st.staleIfError]
           cached == [hit EXCEPT !.result = "cached", !.value = cache.value]
           now0 == st.state = "FRESH" \/ st.staleWhileRevalidate
           out == k.error
           quiet == UNCHANGED <<abortControllers, call, active, queue, breaker>>
       IN IF k.pc = "raceCache"       \* the fetch has failed with out
          THEN /\ ccall' = [ccall EXCEPT ![c] =
                      IF ~cache.present THEN [k EXCEPT !.pc = "done", !.result = out,
                                                       !.lookup = "miss"]
                      ELSE IF now0
                      THEN [cached EXCEPT !.pc = "done",
                                          !.upd = IF k.update THEN out ELSE "absent"]
                      ELSE IF st.staleIfError THEN RaceStale(hit, out, k.status, None)
                      ELSE [hit EXCEPT !.pc = "done", !.result = out]]
               /\ quiet
          ELSE IF ~cache.present
          THEN ccall' = [ccall EXCEPT ![c].lookup = "miss"] /\ quiet
          ELSE IF ~now0
          THEN ccall' = [ccall EXCEPT ![c] = hit] /\ quiet
          ELSE IF k.update \/ st.staleWhileRevalidate
          THEN /\ ccall' = [ccall EXCEPT ![c] =
                      [cached EXCEPT !.upd = IF k.update THEN "pending" ELSE "absent"]]
               /\ quiet
          ELSE \* fetchAbort.abort(new NoUpdateError("Found cached result"))
               /\ Commit(AbortOne(Cur, c, 0))
               /\ CacheLayer([ccall EXCEPT ![c] = cached], NoResponse)
    /\ UNCHANGED <<cfg, now, closed, closer, cache>>

\* Race mode: cache.get(key) rejects.
RaceCacheGetFails(c) ==
    /\ ccall[c].mode = "race" /\ ccall[c].lookup = "pending"
    /\ ccall' = [ccall EXCEPT ![c] =
                    IF @.pc = "raceCache"
                    THEN [@ EXCEPT !.pc = "done", !.result = "cacheError", !.lookup = "failed"]
                    ELSE [@ EXCEPT !.lookup = "failed"]]
    /\ UNCHANGED <<pvars, cache>>

\* cache.set(key, value, headers, cacheControl) has written the entry.
CacheSetDone(c) ==
    /\ ccall[c].write.present
    /\ cache' = ccall[c].write
    /\ ccall' = [ccall EXCEPT ![c].write = NoEntry]
    /\ UNCHANGED pvars

\* The transport answers the delegate; it answers 304 to a conditional
\* request only.
CachingTransportResponds(c, resp) ==
    /\ resp.status = 304 => ccall[c].conditional
    /\ TransportResponds(c, resp, 0)
    /\ CacheLayer(ccall, resp)
    /\ UNCHANGED cache

CachingTransportFails(c) ==
    /\ TransportFails(c, 0)
    /\ CacheLayer(ccall, NoResponse)
    /\ UNCHANGED cache

\* The caller's own signal fires: the delegate's request, if there is one, is
\* aborted; a cache lookup goes on.
CachingAbort(c) ==
    /\ CachingUnsettled(c) /\ ~ccall[c].aborted
    /\ Commit(IF Unsettled(c) THEN AbortOne(Cur, c, 0) ELSE Cur)
    /\ CacheLayer([ccall EXCEPT ![c].aborted = TRUE], NoResponse)
    /\ UNCHANGED <<cfg, now, closed, closer, cache>>

\* The calls that abortAll finds unsettled.
RECURSIVE MarkEach(_, _)
MarkEach(k, S) ==
    IF S = {} THEN k
    ELSE LET c == CHOOSE x \in S : TRUE
         IN MarkEach([k EXCEPT ![c].byAbortAll = @ \/ CachingUnsettled(c)], S \ {c})

\* CachingClient.abortAll: this._delegate.abortAll(reason).
CachingAbortAll ==
    /\ \E c \in Calls : CachingUnsettled(c)
    /\ Commit(abortAll(Cur))
    /\ CacheLayer(MarkEach(ccall, Calls), NoResponse)
    /\ UNCHANGED <<cfg, now, closed, closer, cache>>

\* CachingClient.close: await this._delegate.close(options); closing the
\* memory cache afterwards changes nothing (CacheBase.close).  Explored with
\* timeout 0, where the delegate's close does not wait.
CachingClose(timeout) ==
    /\ Close(timeout)
    /\ CacheLayer(ccall, NoResponse)
    /\ UNCHANGED cache

\* CachingClient.close, once the delegate's close has resolved: close() has
\* been called on the backends found in #caches, which holds the backend from
\* the first fetchJson with useCache on (_getCache stores it before the first
\* await).
TablesClosed ==
    /\ closed
    /\ \E c \in Calls :
          ccall[c].pc # "idle" /\ ~ccall[c].afterClose /\ ccall[c].mode # "bypass"

CachingTick ==
    /\ now < MaxCacheTime
    /\ Tick
    /\ UNCHANGED cvars

CacheConfigs == {[Opt(0, FALSE, FALSE, 0, 0, FALSE) EXCEPT !.cache = TRUE]}

InitCache == InitWith(CacheConfigs)

NextCache ==
    \/ \E c \in Users, mode \in CacheModes : CachingFetchJson(c, mode) /\ UNCHANGED ovars
    \/ \E c \in Calls : CacheAvailable(c) /\ UNCHANGED ovars
    \/ \E c \in Calls : CacheGetReturns(c) /\ UNCHANGED ovars
    \/ \E c \in Calls : CacheSetDone(c) /\ UNCHANGED ovars
    \/ \E c \in Calls, resp \in CacheResponses : CachingTransportResponds(c, resp) /\ UNCHANGED ovars
    \/ \E c \in Calls : CachingTransportFails(c) /\ UNCHANGED ovars
    \/ \E c \in Calls : CachingAbort(c) /\ UNCHANGED ovars
    \/ CachingAbortAll /\ UNCHANGED ovars
    \/ CachingClose(0) /\ UNCHANGED ovars
    \/ CachingTick /\ UNCHANGED ovars

SpecCache == InitCache /\ [][NextCache]_vars

\* ------------------------------------------------------------ caching: revalidation
\* Answers that leave entries of every cache state behind, and the answers to
\* a revalidation.
RevalidationResponses ==
    {Answer(200, 1, 0, et, swr, sie, FALSE) :
        et \in {0, 1}, swr \in {None, 1}, sie \in {None, 1}}
    \cup {Answer(200, 2, None, 0, None, None, FALSE),
          Answer(200, 1, None, 0, None, None, TRUE)}
    \cup {Answer(st, 0, None, 0, None, None, FALSE) : st \in {304, 404, 500}}

RevalidationConfigs ==
    CacheConfigs \cup {[Opt(0, FALSE, FALSE, TimeoutRequest, 0, FALSE) EXCEPT !.cache = TRUE]}

\* The cache holds what an earlier write-through left in it.
InitRevalidation ==
    InitSeeded(RevalidationConfigs, {updateCache(resp) : resp \in RevalidationResponses})

\* The per-request timer of the delegate fires.
CachingRequestTimeout(c) ==
    /\ RequestTimeout(c, 0)
    /\ CacheLayer(ccall, NoResponse)
    /\ UNCHANGED cache

RevalidationTick ==
    /\ now < MaxRevalidationTime
    /\ Tick
    /\ UNCHANGED cvars

NextRevalidation ==
    \/ \E c \in 1..NWatched, mode \in CacheModes, update \in BOOLEAN, skip \in BOOLEAN :
          fetchJson(c, mode, update, skip) /\ UNCHANGED ovars
    \/ \E c \in Calls : CacheAvailable(c) /\ UNCHANGED ovars
    \/ \E c \in Calls : CacheGetReturns(c) /\ UNCHANGED ovars
    \/ \E c \in Calls : CacheSetDone(c) /\ UNCHANGED ovars
    \/ \E c \in Calls, resp \in RevalidationResponses :
          CachingTransportResponds(c, resp) /\ UNCHANGED ovars
    \/ \E c \in Calls : CachingTransportFails(c) /\ UNCHANGED ovars
    \/ \E c \in Calls : CachingRequestTimeout(c) /\ UNCHANGED ovars
    \/ \E c \in Calls : CachingAbort(c) /\ UNCHANGED ovars
    \/ RevalidationTick /\ UNCHANGED ovars

SpecRevalidation == InitRevalidation /\ [][NextRevalidation]_vars

\* ------------------------------------------------------------ caching: race
\* Answers whose ETag or value differs from the entry's or not.
RaceResponses ==
    {Answer(200, v, 0, et, swr, sie, FALSE) :
        v \in {1, 2}, et \in {0, 1}, swr \in {None, 1}, sie \in {None, 1}}
    \cup {Answer(200, 1, None, 2, None, None, FALSE)}
    \cup {Answer(st, 0, None, 0, None, None, FALSE) : st \in {404, 500}}

InitRace == InitSeeded(CacheConfigs, {updateCache(resp) : resp \in RaceResponses})

NextRace ==
    \/ \E c \in 1..NWatched, update \in BOOLEAN :
          fetchJson(c, "race", update, FALSE) /\ UNCHANGED ovars
    \/ \E c \in Calls : CacheAvailable(c) /\ UNCHANGED ovars
    \/ \E c \in Calls : RaceCacheGetReturns(c) /\ UNCHANGED ovars
    \/ \E c \in Calls : RaceCacheGetFails(c) /\ UNCHANGED ovars
    \/ \E c \in Calls : CacheSetDone(c) /\ UNCHANGED ovars
    \/ \E c \in Calls, resp \in RaceResponses :
          CachingTransportResponds(c, resp) /\ UNCHANGED ovars
    \/ \E c \in Calls : CachingTransportFails(c) /\ UNCHANGED ovars
    \/ \E c \in Calls : CachingAbort(c) /\ UNCHANGED ovars
    \/ CachingTick /\ UNCHANGED ovars

SpecRace == InitRace /\ [][NextRace]_vars

\* ------------------------------------------------------------ caching: backends
factoryLoaderCachedMutant(l, id) == FALSE

\* CachingClient._loadCacheFactory: factoryLoaderCached.
factoryLoaderCached(l, id) == l.promised[id]

\* CachingClient._loadCacheFactory(id), called by _loadCache(id, t): up to its
\* await, or to its return if the factory is there.
loadCacheFactory(l, id, t) ==
    IF l.factories[id] THEN [l EXCEPT !.waiting[id, t] = "loaded"]
    ELSE IF factoryLoaderCached(l, id) THEN [l EXCEPT !.waiting[id, t] = "cached"]
    ELSE [l EXCEPT !.loads[id] = @ + 1, !.loader[id] = "pending",
                   !.promised[id] = TRUE, !.waiting[id, t] = "first"]

\* CachingClient._getCache(id, t): the promise found in #caches, or the one of
\* _loadCache(id, t), stored there.
getCache(l, id, t) ==
    IF l.caches[id, t] # "none" THEN l
    ELSE [loadCacheFactory(l, id, t) EXCEPT !.caches[id, t] = "pending"]

\* fetchJson with useCache calls _getAvailableCache(cacheIds, table): up to the
\* await of the first provider's backend.
GetAvailableCache(r, t) ==
    /\ loading.req[r].pc = "idle"
    /\ \A q \in Requests : q < r => loading.req[q].pc # "idle"
    /\ loading' = [getCache(loading, 1, t) EXCEPT
                      !.req[r] = [pc |-> "await", table |-> t, at |-> 1, cache |-> 0]]
    /\ UNCHANGED <<pvars, cvars, seen>>

\* The promise a loader returned settles.
LoaderSettles(id, ok) ==
    /\ loading.loader[id] = "pending"
    /\ loading' = [loading EXCEPT !.loader[id] = IF ok THEN "resolved" ELSE "rejected"]
    /\ UNCHANGED <<pvars, cvars, seen>>

\* _loadCacheFactory(id) of _loadCache(id, t) goes on after its await and
\* _loadCache's reaction creates the backend, or the rejection of the loader
\* passes through both.
FactoryLoaded(id, t, available) ==
    /\ \/ loading.waiting[id, t] = "loaded"
       \/ /\ loading.waiting[id, t] \in {"first", "cached"}
          /\ loading.loader[id] \in {"resolved", "rejected"}
    /\ loading' =
          IF loading.waiting[id, t] # "loaded" /\ loading.loader[id] = "rejected"
          THEN [loading EXCEPT !.waiting[id, t] = "none", !.caches[id, t] = "failed"]
          ELSE [loading EXCEPT
                   !.waiting[id, t] = "none",
                   !.factories[id] = TRUE,
                   !.promised[id] = IF loading.waiting[id, t] = "first" THEN FALSE ELSE @,
                   !.created[id, t] = @ + 1,
                   !.caches[id, t] = IF available THEN "ready" ELSE "unavailable"]
    /\ UNCHANGED <<pvars, cvars, seen>>

\* _getAvailableCache goes on after await this._getCache(id, table): it returns
\* an available backend, and turns to the next provider otherwise.
CacheAwaited(r) ==
    LET q == loading.req[r]
        found == loading.caches[q.at, q.table]
    IN /\ q.pc = "await"
       /\ found \in {"ready", "unavailable", "failed"}
       /\ loading' =
             IF found = "ready"
             THEN [loading EXCEPT !.req[r].pc = "done", !.req[r].cache = q.at]
             ELSE IF q.at = NProviders
             THEN [loading EXCEPT !.req[r].pc = "done"]
             ELSE [getCache(loading, q.at + 1, q.table) EXCEPT !.req[r].at = q.at + 1]
       /\ UNCHANGED <<pvars, cvars, seen>>

InitBackends == InitWith(CacheConfigs)

NextBackends ==
    \/ \E r \in Requests, t \in Tables : GetAvailableCache(r, t)
    \/ \E id \in Providers, ok \in BOOLEAN : LoaderSettles(id, ok)
    \/ \E id \in Providers, t \in Tables, available \in BOOLEAN : FactoryLoaded(id, t, available)
    \/ \E r \in Requests : CacheAwaited(r)

SpecBackends == InitBackends /\ [][NextBackends]_vars

\* ------------------------------------------------------------ caching: Content-Type
\* Answers with a JSON Content-Type and without, and the 304 of a revalidation.
ContentTypeResponses ==
    {Answer(200, 2, None, 0, None, None, FALSE),
     NonJson(Answer(200, 2, None, 0, None, None, FALSE)),
     Answer(304, 0, None, 0, None, None, FALSE)}

\* A caching client on a client that retries and has a circuit breaker; the
\* cache is empty or holds an entry that is stale from the next instant on,
\* with an ETag or without.
InitContentType ==
    InitSeeded({[Opt(1, TRUE, FALSE, 0, 0, FALSE) EXCEPT !.cache = TRUE]},
               {NoEntry} \cup {updateCache(Answer(200, 1, 0, et, None, None, FALSE)) :
                                  et \in {0, 1}})

NextContentType ==
    \/ \E c \in Users, mode \in CacheModes, skipContentType \in BOOLEAN :
          fetchJsonInit(c, mode, FALSE, FALSE, skipContentType) /\ UNCHANGED ovars
    \/ \E c \in Calls : CacheAvailable(c) /\ UNCHANGED ovars
    \/ \E c \in Calls : CacheGetReturns(c) /\ UNCHANGED ovars
    \/ \E c \in Calls : CacheSetDone(c) /\ UNCHANGED ovars
    \/ \E c \in Calls, resp \in ContentTypeResponses :
          CachingTransportResponds(c, resp) /\ UNCHANGED ovars
    \/ RevalidationTick /\ UNCHANGED ovars

SpecContentType == InitContentType /\ [][NextContentType]_vars

\* ------------------------------------------------------------ caching: freshness
\* Answers that leave entries with every combination of the stale-*
\* directives and must-revalidate behind.
FreshnessResponses ==
    LET plain == {Answer(200, 1, ma, 0, swr, sie, FALSE) :
                     ma \in {0, 1}, swr \in {None, 1}, sie \in {None, 1}}
    IN plain \cup {MustRevalidate(resp) : resp \in plain}

InitFreshness ==
    InitSeeded(CacheConfigs, {updateCache(resp) : resp \in FreshnessResponses})

\* A second passes while no call is under way.
LongWait ==
    /\ now < MaxLongWaits * Second
    /\ \A c \in Calls : ccall[c].pc \in {"idle", "done"}
    /\ now' = now + Second
    /\ UNCHANGED <<cfg, closed, abortControllers, call, active, queue, breaker, closer,
                   cvars>>

\* A clock tick straight after the start or after a wait.
FreshnessTick ==
    /\ now % Second = 0
    /\ Tick
    /\ UNCHANGED cvars

NextFreshness ==
    \/ \E c \in Users, mode \in {"cacheControl", "fetchFirst"}, update \in BOOLEAN :
          fetchJson(c, mode, update, FALSE) /\ UNCHANGED ovars
    \/ \E c \in Calls : CacheAvailable(c) /\ UNCHANGED ovars
    \/ \E c \in Calls : CacheGetReturns(c) /\ UNCHANGED ovars
    \/ \E c \in Calls, st \in {304, 500} :
          CachingTransportResponds(c, Answer(st, 0, None, 0, None, None, FALSE))
          /\ UNCHANGED ovars
    \/ \E c \in Calls : CachingTransportFails(c) /\ UNCHANGED ovars
    \/ FreshnessTick /\ UNCHANGED ovars
    \/ LongWait /\ UNCHANGED ovars

SpecFreshness == InitFreshness /\ [][NextFreshness]_vars

\* ------------------------------------------------------------ the retries, observed
\* The answers of a transport that asks for longer delays.
RetryResponses ==
    {[status |-> st, retryAfter |-> None] : st \in {200, 404, 503}}
    \cup {[status |-> 503, retryAfter |-> ra] : ra \in 1..LongRetryAfter}

\* One call over one step, as the transport mock of the tests and a clock see
\* it: k before, k2 after, o what was seen so far, st the status of the
\* response the call got in this step (0: none).
Watched(k, k2, o, st) ==
    LET started == k2.calls > k.calls
        header == k.retryAfter = None /\ k2.retryAfter # None
        pending == k.retryAfter # None /\ k.pc \in {"backoff", "queued", "hoWait"}
        diff0 == k.retryAfter - now
        slept == IF k2.pc = "raSleep" THEN k2.wakeAt - now ELSE 0
        consumed == pending /\ (k2.pc = "raSleep" \/ started)
        over == started \/ k2.pc = "fin" \/ k2.attempt # k.attempt
    IN [until |-> IF header THEN k2.retryAfter ELSE IF over THEN None ELSE o.until,
        early |-> o.early \/ (started /\ o.until # None /\ now < o.until),
        honoured |-> o.honoured \/ (started /\ k.pc = "raSleep"
                                    /\ o.until # None /\ now >= o.until),
        clamps |-> IF consumed /\ diff0 > 0 /\ slept < diff0
                   THEN o.clamps + 1 ELSE o.clamps,
        retried |-> IF st >= 400 /\ k.pc = "inflight" /\ k2.pc = "backoff"
                    THEN st ELSE o.retried]

Watch(c, st) ==
    /\ seen' = [x \in Calls |->
                   Watched(call[x], call'[x], seen[x], IF x = c THEN st ELSE 0)]
    /\ UNCHANGED loading

\* The user calls fetch with a method, given in init.method or carried by a
\* Request passed as input.
FetchInput(c, m, via) ==
    /\ call[c].pc = "idle" /\ call[c].outcome = "none"
    /\ \A b \in Calls : b < c => call[b].pc # "idle" \/ call[b].outcome # "none"
    /\ Commit(fetchInput(Cur, c, FALSE, FALSE, m, via))
    /\ UNCHANGED <<cfg, now, closed, closer>>

RetryConfigs ==
    {Opt(MaxRetries, FALSE, FALSE, 0, 0, FALSE),
     Opt(MaxRetries, FALSE, FALSE, TimeoutRequest, 0, FALSE),
     Opt(MaxRetries, FALSE, FALSE, 0, LongTimeoutTotal, FALSE),
     [Opt(1, FALSE, FALSE, 0, 0, FALSE) EXCEPT !.retryPosts = TRUE]}

InitRetry == InitWith(RetryConfigs)

NextRetry ==
    \/ \E c \in 1..NWatched, m \in Methods, via \in BOOLEAN : FetchInput(c, m, via) /\ Watch(c, 0) /\ UNCHANGED cvars
    \/ \E c \in Calls, resp \in RetryResponses, d \in 1..MaxBackoff : TransportResponds(c, resp, d) /\ Watch(c, resp.status) /\ UNCHANGED cvars
    \/ \E c \in Calls, d \in 1..MaxBackoff : TransportFails(c, d) /\ Watch(c, 0) /\ UNCHANGED cvars
    \/ \E c \in Calls, d \in 1..MaxBackoff : RequestTimeout(c, d) /\ Watch(c, 0) /\ UNCHANGED cvars
    \/ \E c \in Calls : TotalTimeout(c) /\ Watch(c, 0) /\ UNCHANGED cvars
    \/ \E c \in Calls : BackoffWake(c) /\ Watch(c, 0) /\ UNCHANGED cvars
    \/ \E c \in Calls : RetryAfterWake(c) /\ Watch(c, 0) /\ UNCHANGED cvars
    \/ \E c \in Calls : DetachedWake(c) /\ Watch(c, 0) /\ UNCHANGED cvars
    \/ \E c \in Calls : Abort(c) /\ Watch(c, 0) /\ UNCHANGED cvars
    \/ Tick /\ UNCHANGED <<cvars, ovars>>

SpecRetry == InitRetry /\ [][NextRetry]_vars

\* ------------------------------------------------------------ the default headers
\* The values of one header: not set (or, as a default, ""), one entry, or a
\* list of two.
HeaderValues == {<<>>, <<1>>, <<2>>, <<1, 2>>}

\* createFetchClient's defaultHeaders and defaultHeadersByMethod, as far as
\* they concern that header.
DefaultHeaders ==
    {<<>>} \cup {<<v>> : v \in HeaderValues}
    \cup {<<v, w>> : v \in HeaderValues \ {<<>>}, w \in {<<>>, <<2>>}}

\* The user calls fetch(url, {headers}) on a client with default headers.
FetchWithHeaders(c, headers, defaults) ==
    /\ call[c].pc = "idle" /\ call[c].outcome = "none"
    /\ Commit(fetch([Cur EXCEPT !.call[c].headers = headers,
                                !.call[c].defaults = defaults], c, FALSE, FALSE))
    /\ UNCHANGED <<cfg, now, closed, closer>>

InitHeaders ==
    InitWith({Opt(MaxRetries, FALSE, FALSE, 0, 0, FALSE),
              Opt(MaxRetries, FALSE, FALSE, TimeoutRequest, 0, FALSE)})

NextHeaders ==
    \/ \E c \in 1..NWatched, headers \in HeaderValues, defaults \in DefaultHeaders :
          FetchWithHeaders(c, headers, defaults) /\ UNCHANGED <<cvars, ovars>>
    \/ \E c \in Calls, st \in {200, 404, 500, 503}, d \in 1..MaxBackoff :
          TransportResponds(c, [status |-> st, retryAfter |-> None], d)
          /\ UNCHANGED <<cvars, ovars>>
    \/ \E c \in Calls, d \in 1..MaxBackoff : TransportFails(c, d) /\ UNCHANGED <<cvars, ovars>>
    \/ \E c \in Calls, d \in 1..MaxBackoff : RequestTimeout(c, d) /\ UNCHANGED <<cvars, ovars>>
    \/ \E c \in Calls : BackoffWake(c) /\ UNCHANGED <<cvars, ovars>>
    \/ Tick /\ UNCHANGED <<cvars, ovars>>

SpecHeaders == InitHeaders /\ [][NextHeaders]_vars

\* ------------------------------------------------------------ the bulkhead alone
BulkheadConfigs ==
    {Opt(0, FALSE, TRUE, 0, 0, FALSE), Opt(1, FALSE, TRUE, 0, 0, FALSE)}

InitBulkhead == InitWith(BulkheadConfigs)

NextBulkhead ==
    \/ \E c \in Calls : Fetch(c, FALSE) /\ UNCHANGED <<cvars, ovars>>
    \/ \E c \in Calls, resp \in Responses, d \in 1..MaxBackoff : TransportResponds(c, resp, d) /\ UNCHANGED <<cvars, ovars>>
    \/ \E c \in Calls, d \in 1..MaxBackoff : TransportFails(c, d) /\ UNCHANGED <<cvars, ovars>>
    \/ \E c \in Calls : BackoffWake(c) /\ UNCHANGED <<cvars, ovars>>
    \/ \E c \in Calls : RetryAfterWake(c) /\ UNCHANGED <<cvars, ovars>>
    \/ \E c \in Calls : Abort(c) /\ UNCHANGED <<cvars, ovars>>
    \/ Tick /\ UNCHANGED <<cvars, ovars>>

SpecBulkhead == InitBulkhead /\ [][NextBulkhead]_vars

\* ------------------------------------------------------------ claims
InFlight == {c \in Calls : call[c].pc = "inflight"}
InQueue(c) == \E i \in 1..Len(queue) : queue[i] = c

\* C1: with maxRetries = N >= 1 one call invokes the transport at most N + 1
\* times, whatever retriable failures the transport produces.
C1_TransportCallsBounded ==
    cfg.retries >= 1 => \A c \in Calls : call[c].calls <= cfg.retries + 1

\* A call that used up all its attempts and failed with the last failure.
C1_Witness ==
    \E c \in Calls :
        /\ cfg.retries >= 1 /\ call[c].calls = cfg.retries + 1
        /\ call[c].outcome \in {"http", "timeout", "network"}

\* C2: after openAfterFailedAttempts consecutive failures the breaker counts, an
\* attempt that reaches the breaker before halfOpenAfter has elapsed (a retry
\* of the same call too) is rejected with BrokenCircuit and never reaches the
\* transport.
C2_OpenCircuitRejects ==
    \A c \in Calls :
        /\ call[c].admitted \notin {"passed", "wait"}
        /\ call[c].admitted = "broken" => call[c].pc = "fin" /\ call[c].outcome # "none"

\* A call whose own earlier attempt reached the transport and whose retry the
\* open circuit rejected.
C2_Witness ==
    \E c \in Calls :
        call[c].admitted = "broken" /\ call[c].outcome = "broken" /\ call[c].calls >= 1

\* C3: with parallelRequests = (P, Q) at most P transport calls are in flight.
C3_InFlightBounded ==
    cfg.parallelRequests => Cardinality(InFlight) <= MaxParallel

\* All slots are taken by transport calls in flight and a further call waits.
C3_Witness ==
    /\ cfg.parallelRequests /\ cfg.retries >= 1 /\ cfg.timeoutRequest > 0
    /\ Cardinality(InFlight) = MaxParallel /\ queue # <<>>
    /\ \E c \in InFlight : call[c].attempt >= 1

\* C4: with timeoutTotal = D > 0 every call settles no later than D plus one
\* tick after it was issued, whatever other options are set.
C4_SettlesWithinDeadline ==
    \A c \in Calls :
        (cfg.timeoutTotal > 0 /\ Unsettled(c))
            => now <= call[c].startTime + cfg.timeoutTotal + 1

\* C5: once the caller's signal has fired the call rejects with the signal's
\* reason, does not stay in the bulkhead queue and starts no transport attempt.
C5_AbortInterruptsEverything ==
    \A c \in Calls :
        call[c].aborted =>
            /\ call[c].outcome \in {"none", "aborted"}
            /\ ~InQueue(c)
            /\ ~call[c].lateCall

\* C6: abortAll(reason) makes every call that is unsettled at that moment
\* reject with the reason, on the caching client as on the others.
C6_AbortAllRejectsUnsettled ==
    \A c \in Calls : ccall[c].byAbortAll => ccall[c].result \in {"none", "aborted"}

\* C7: a call issued after close() is rejected as ClientClosed and gets no
\* value from the transport or from a cache.
C7_ClosedRejectsEverything ==
    \A c \in Calls : ccall[c].afterClose => ccall[c].result \in {"none", "closed"}

\* C8: close({timeout}) marks the client closed; timeout 0 aborts at once and
\* resolves; timeout T > 0 aborts what is outstanding no later than T plus one
\* polling tick after the call; without timeout nothing is aborted and close
\* resolves only when nothing is outstanding.
C8_CloseWithinTimeout ==
    closer.pc # "none" =>
        /\ closed
        /\ closer.timeout = 0 => closer.pc = "resolved"
        /\ (closer.timeout # None /\ closer.timeout > 0 /\ closer.abortedAt # None)
               => closer.abortedAt <= closer.start + closer.timeout + Step
        /\ closer.timeout = None => closer.abortedAt = None
        /\ closer.pc = "resolved" => abortControllers = {}

\* C9: with skipFailOnErrorCode set on the request no response status turns
\* into an HttpResponseError, on any client.
C9_SkipFailReturnsResponse ==
    \A c \in Calls : call[c].skip => call[c].outcome # "http"

\* C10: with defaultSkipFailOnErrorCode = true on the client no response status
\* turns into an HttpResponseError.
C10_DefaultSkipFailReturnsResponse ==
    cfg.defaultSkipFailOnErrorCode => \A c \in Calls : call[c].outcome # "http"

\* C11: with retries and no timeoutTotal, after a 429/503 whose Retry-After
\* header names the instant t, the transport call of the next attempt is not
\* started before t, whatever the backoff; only that attempt sleeps for it.
C11_NextAttemptWaitsForRetryAfter ==
    (cfg.retries >= 1 /\ cfg.timeoutTotal = 0) =>
        \A c \in Calls :
            /\ ~seen[c].early
            /\ call[c].pc = "raSleep" =>
                   seen[c].until # None /\ call[c].wakeAt = seen[c].until

\* The backoff was over before t, the attempt slept on and called the
\* transport at t or later.
C11_Witness ==
    \E c \in Calls :
        /\ cfg.retries >= 1 /\ cfg.timeoutTotal = 0
        /\ seen[c].honoured /\ call[c].calls >= 2

\* C12: with timeoutTotal set and time remaining, a Retry-After delay larger
\* than (remaining - safety margin) is slept as max(0, remaining - margin),
\* which ends before the overall deadline; this happens at most once per call,
\* any other delay is slept in full.
C12_ClampOnce ==
    [][\A c \in Calls :
          LET k == call[c]
              k2 == call'[c]
              diff0 == k.retryAfter - now
              remaining == k.startTime + cfg.timeoutTotal - now
              entering == /\ k.retryAfter # None
                          /\ k.pc \in {"backoff", "queued", "hoWait"}
                          /\ (k2.pc = "raSleep" \/ k2.calls > k.calls)
              slept == IF k2.pc = "raSleep" THEN k2.wakeAt - now ELSE 0
              room == IF remaining > SafetyMargin THEN remaining - SafetyMargin ELSE 0
          IN /\ seen'[c].clamps <= 1
             /\ (cfg.timeoutTotal > 0 /\ entering /\ diff0 > 0 /\ remaining > 0) =>
                   IF diff0 > remaining - SafetyMargin /\ seen[c].clamps = 0
                   THEN slept = room /\ now + slept < k.startTime + cfg.timeoutTotal
                   ELSE slept = diff0]_vars

\* One delay of the call was shortened to a sleep that is not empty, and a
\* later one is being slept in full.
C12_Witness ==
    \E c \in Calls :
        /\ cfg.timeoutTotal > 0 /\ seen[c].clamps = 1 /\ call[c].adapted
        /\ call[c].calls >= 2 /\ call[c].pc = "raSleep"
        /\ call[c].wakeAt = seen[c].until

\* C13: an attempt that failed with an HTTP error status is retried only if the
\* status is a retry status and the method the request was sent with is one of
\* the retry methods (POST only with retryPosts), wherever the method was given.
C13_RetriesOnlyRetryMethods ==
    \A c \in Calls :
        seen[c].retried # None =>
            /\ seen[c].retried \in DefaultRetryCodes
            /\ \/ call[c].method \in DefaultRetryMethods
               \/ call[c].method = "POST" /\ cfg.retryPosts

\* C14: on entry to the bulkhead a request takes a free slot, else it is queued
\* while fewer than maxQueuedRequests wait, else it is rejected at once with
\* BulkheadRejected, without a transport call and without a retry; the queue
\* never holds more than maxQueuedRequests.
C14_BulkheadAdmission ==
    [][\A c \in Calls :
          LET k == call[c]
              k2 == call'[c]
              entering == /\ cfg.parallelRequests /\ ~closed /\ ~k.aborted
                          /\ k.pc \in {"idle", "backoff"} /\ k2.pc # k.pc
          IN /\ Len(queue') <= MaxQueued
             /\ entering =>
                   IF active < MaxParallel
                   THEN k2.pc \in {"inflight", "raSleep"} /\ active' = active + 1
                        /\ queue' = queue
                   ELSE IF Len(queue) < MaxQueued
                   THEN k2.pc = "queued" /\ queue' = Append(queue, c)
                        /\ active' = active /\ k2.calls = k.calls
                   ELSE /\ k2.pc = "fin" /\ k2.outcome = "bulkhead"
                        /\ k2.calls = k.calls /\ k2.attempt = 0
                        /\ queue' = queue /\ active' = active]_vars

\* One call holds the slot, one waits, and a third was rejected without ever
\* reaching the transport.
C14_Witness ==
    \E a, b, c \in Calls :
        /\ call[a].pc = "inflight" /\ InQueue(b)
        /\ call[c].outcome = "bulkhead" /\ call[c].calls = 0

\* C15: in cacheControl mode, when the cache lookup returns an entry that is
\* Fresh (it has no max-age, or updated + max-age has not passed), fetchJson
\* resolves in that step with the entry's value and headers, the transport is
\* not invoked for the call, and the update field is a promise rejected with
\* NoUpdate if update was requested and is absent otherwise.
C15_FreshHitReturnsCached ==
    [][\A c \in Calls :
          (/\ ccall[c].mode = "cacheControl"
           /\ ccall[c].pc = "lookup" /\ ccall'[c].pc # "lookup"
           /\ cache.present
           /\ (cache.maxAge = None \/ cache.updated + cache.maxAge * Second >= now))
          => /\ ccall'[c].pc = "done" /\ ccall'[c].result = "cached"
             /\ ccall'[c].value = cache.value /\ ccall'[c].found = cache
             /\ call'[c] = call[c] /\ call[c].calls = 0 /\ call[c].pc = "idle"
             /\ ccall'[c].upd = IF ccall[c].update THEN "noUpdate" ELSE "absent"]_vars

C15_Witness ==
    \E c \in Calls :
        /\ ccall[c].mode = "cacheControl" /\ ccall[c].state = "FRESH"
        /\ ccall[c].result = "cached" /\ ccall[c].value = 2
        /\ ccall[c].update /\ ccall[c].upd = "noUpdate"
        /\ call[c].calls = 0 /\ now >= 1

\* C16: as long as every result the transport has delivered carried
\* Cache-Control: no-store, nothing is written to the cache (no entry, no
\* cache.set under way), no request is answered from the cache, and every
\* request that resolved had its transport call.
C16_NoStoreIsNotWritten ==
    (\A c \in Calls : ccall[c].result \in {"ok", "okErr"} => ccall[c].noStore)
    => /\ ~cache.present
       /\ \A c \in Calls :
             /\ ~ccall[c].write.present
             /\ ccall[c].result # "cached"
             /\ ccall[c].result \in {"ok", "okErr"} => call[c].calls >= 1

C16_Witness ==
    /\ \A c \in Users : ccall[c].pc = "done" /\ ccall[c].result = "ok" /\ ccall[c].noStore
    /\ ccall[1].mode = "fetchFirst" /\ ccall[2].mode = "cacheControl"
    /\ call[2].calls = 1 /\ call[1].pc = "fin" /\ ~cache.present

\* C17: once a fetchJson with caching enabled has resolved with a fetched
\* result r whose cache-control is storable, its write-through is over and no
\* other request has been made, the cache holds an entry whose value is
\* r.value, whatever JSON value that is.
C17_WriteThroughThenLookup ==
    (/\ ccall[1].pc = "done" /\ ccall[1].result = "ok"
     /\ ccall[1].mode # "bypass" /\ ~ccall[1].noStore
     /\ ~ccall[1].write.present
     /\ \A c \in Calls \ {1} : ccall[c].pc = "idle")
    => cache.present /\ cache.value = ccall[1].value

\* C18: fetchJson never settles its main result with NoUpdate, whatever the
\* cache mode, the cache state, the update flag and the transport's answer
\* (a 304 to the conditional request included).
C18_NoUpdateOnlyOnUpdateChannel ==
    \A c \in Calls : ccall[c].result # "noUpdate"

\* C19: whenever a fetchJson called with update = true in cacheControl mode
\* has resolved, its result carries an update field (a promise, pending or
\* settled with a newer result, NoUpdate or an error).
C19_ResolvedResultCarriesUpdate ==
    \A c \in Calls :
        (/\ ccall[c].mode = "cacheControl" /\ ccall[c].update
         /\ ccall[c].result \in {"ok", "okErr", "cached"})
        => ccall[c].upd # "absent"

\* C20 (as stated): in cacheControl mode, when the entry found is Stale with
\* staleIfError in force and the revalidation request fails, fetchJson resolves
\* with the cached value if the failure is an HTTP error of status >= 500 or a
\* network error, and rejects with the failure otherwise (4xx, timeout, abort).
C20_StaleIfErrorAsStated ==
    \A c \in Calls :
        (/\ ccall[c].mode = "cacheControl" /\ ccall[c].state = "STALE"
         /\ ccall[c].staleIfError
         /\ ccall[c].pc = "done" /\ call[c].outcome \notin {"none", "ok", "okErr"})
        => IF (call[c].outcome = "http" /\ ccall[c].status >= 500)
              \/ call[c].outcome = "network"
           THEN ccall[c].result = "cached" /\ ccall[c].value = ccall[c].found.value
           ELSE ccall[c].result = call[c].outcome

\* C20 (amended): the same where staleWhileRevalidate is not in force; where
\* it is, the cached value has been returned before the revalidation ends.
C20_StaleIfError ==
    \A c \in Calls :
        (/\ ccall[c].mode = "cacheControl" /\ ccall[c].state = "STALE"
         /\ ccall[c].staleIfError /\ ~ccall[c].staleWhileRevalidate
         /\ ccall[c].pc = "done" /\ call[c].outcome \notin {"none", "ok", "okErr"})
        => IF (call[c].outcome = "http" /\ ccall[c].status >= 500)
              \/ call[c].outcome = "network"
           THEN ccall[c].result = "cached" /\ ccall[c].value = ccall[c].found.value
           ELSE ccall[c].result = call[c].outcome

C20_Witness ==
    \E c \in Calls :
        /\ ccall[c].mode = "cacheControl" /\ ccall[c].state = "STALE"
        /\ ccall[c].staleIfError /\ ~ccall[c].staleWhileRevalidate
        /\ call[c].outcome = "http" /\ ccall[c].status = 500
        /\ ccall[c].result = "cached" /\ ccall[c].value = 1

C23_CachedReturnedAtLookup ==
    [][\A c \in Calls :
          LET k == ccall[c]
              k2 == ccall'[c]
              validUntil == cache.updated + cache.maxAge * Second
              fresh == cache.maxAge = None \/ now <= validUntil
              inForce(r) == r # None /\ validUntil + r * Second >= now
          IN (/\ k.mode = "race" /\ k.pc = "delegate"
              /\ k.lookup = "pending" /\ k2.lookup = "hit"
              /\ call[c].outcome = "none" /\ cache.present
              /\ \/ fresh
                 \/ inForce(cache.staleWhileRevalidate)
                 \/ inForce(cache.staleIfError))
             => (k2.result = "cached" /\ k2.value = cache.value)]_vars

C25_UpdateSettlesOnce ==
    [][\A c \in Calls :
          LET k == ccall[c]
              k2 == ccall'[c]
              fetched == k2.write
              settles == /\ k.mode = "race" /\ k.update /\ k.result = "cached"
                         /\ k.upd = "pending"
                         /\ call[c].outcome = "none" /\ call'[c].outcome = "ok"
              equal == IF fetched.etag # 0 /\ k.found.etag # 0
                       THEN fetched.etag = k.found.etag
                       ELSE fetched.value = k.value
          IN /\ settles =>
                  /\ fetched.present
                  /\ k2.result = "cached" /\ k2.value = k.value
                  /\ k2.upd = (IF equal THEN "noUpdate" ELSE "value")
                  /\ k2.upd = "value" => fetched.value # k.value
             /\ (k.mode = "race" /\ k.upd \in {"noUpdate", "value"}) => k2.upd = k.upd]_vars

\* C26: in race mode, when the cache lookup has failed and the fetch has
\* failed, in either order, fetchJson has rejected with the fetch's error.
C26_BothFailFetchError ==
    \A c \in Calls :
        (/\ ccall[c].mode = "race" /\ ccall[c].lookup = "failed"
         /\ call[c].outcome \notin {"none", "ok", "okErr"})
        => (ccall[c].pc = "done" /\ ccall[c].result = call[c].outcome)

\* C27 (as stated): in race mode, when the fetch has failed and the entry the
\* lookup found is Stale and carries neither stale-while-revalidate nor
\* stale-if-error, fetchJson has resolved with the stale cached value.
C27_StaleReturnedAnyway ==
    \A c \in Calls :
        (/\ ccall[c].mode = "race" /\ ccall[c].lookup = "hit"
         /\ ccall[c].state = "STALE"
         /\ ccall[c].found.staleWhileRevalidate = None
         /\ ccall[c].found.staleIfError = None
         /\ call[c].outcome \notin {"none", "ok", "okErr"})
        => (/\ ccall[c].pc = "done" /\ ccall[c].result = "cached"
            /\ ccall[c].value = ccall[c].found.value)

\* C27 (amended): in that case fetchJson has rejected with the fetch's error,
\* whichever of the lookup and the fetch settled first.
C27_StaleWithoutRelaxationRejects ==
    \A c \in Calls :
        (/\ ccall[c].mode = "race" /\ ccall[c].lookup = "hit"
         /\ ccall[c].state = "STALE"
         /\ ccall[c].found.staleWhileRevalidate = None
         /\ ccall[c].found.staleIfError = None
         /\ call[c].outcome \notin {"none", "ok", "okErr"})
        => (/\ ccall[c].pc = "done" /\ ccall[c].result = call[c].outcome
            /\ ccall[c].upd = "absent")

C27_Witness ==
    \E c \in Calls :
        /\ ccall[c].mode = "race" /\ ccall[c].lookup = "hit"
        /\ ccall[c].state = "STALE" /\ ccall[c].found.present
        /\ ccall[c].found.staleWhileRevalidate = None
        /\ ccall[c].found.staleIfError = None
        /\ call[c].outcome = "network" /\ ccall[c].result = "network"
        /\ ccall[c].pc = "done"

\* C28: a cacheControl-mode lookup that finds an entry written with max-age 0
\* classifies it Stale, whenever it is made, and the request is not answered
\* from the cache.
C28_MaxAgeZeroIsStale ==
    \A c \in Calls :
        (/\ ccall[c].mode = "cacheControl" /\ ccall[c].found.present
         /\ ccall[c].found.maxAge = 0)
        => (ccall[c].state = "STALE" /\ ccall[c].result # "cached")

\* C29: once the overall timeout of a call has fired (the call has rejected
\* with the timeout, the caller not having aborted it), the transport is not
\* called for that call again.
C29_NoAttemptAfterDeadline ==
    [][\A c \in Calls :
          (/\ cfg.timeoutTotal > 0 /\ call[c].outerDone /\ ~call[c].aborted
           /\ call[c].outcome = "timeout")
          => call'[c].calls = call[c].calls]_vars

\* C30: on every retry attempt of a call the headers given to the transport
\* are those the previous attempt gave it, hence those of the first attempt.
C30_RetryPresentsSameHeaders ==
    [][\A c \in Calls :
          (call[c].calls >= 1 /\ call'[c].calls > call[c].calls)
          => call'[c].headers = call[c].headers]_vars

\* C31: the per-request timeout does not run while an attempt sleeps for a
\* Retry-After delay: a sleep that neither the caller nor the overall timeout
\* interrupts ends with the attempt's transport call.
C31_SleepOutsideRequestTimeout ==
    [][\A c \in Calls :
          (/\ call[c].pc = "raSleep" /\ call'[c].pc # "raSleep"
           /\ ~call'[c].aborted /\ ~call'[c].outerDone)
          => call'[c].calls = call[c].calls + 1]_vars

\* C32: in race mode, when the lookup has found, before the fetch succeeded, an
\* entry that is Stale and carries neither stale-while-revalidate nor
\* stale-if-error, the call ends as after a miss: with the fetched value as
\* the value of its result (and, with update = true, an update promise that
\* rejects with NoUpdate), or with the fetch's error.
C32_StaleHitAsMiss ==
    [][\A c \in Calls :
          LET k == ccall[c]
              k2 == ccall'[c]
              out == call'[c].outcome
          IN (/\ k.mode = "race" /\ k.lookup = "hit" /\ k.state = "STALE"
              /\ k.found.staleWhileRevalidate = None /\ k.found.staleIfError = None
              /\ call[c].outcome = "none" /\ out # "none")
             => /\ k2.pc = "done"
                /\ IF out = "ok"
                   THEN /\ k2.result = "ok" /\ k2.write.present
                        /\ k2.value = k2.write.value
                        /\ k2.upd = (IF k.update THEN "noUpdate" ELSE "absent")
                   ELSE k2.result = out]_vars

\* C33: the cache holds no entry written from a response with max-age 0 that
\* carries nothing to revalidate or relax it with (no ETag, no
\* stale-while-revalidate, no stale-if-error).
C33_MaxAgeZeroNotWritten ==
    cache.present =>
        ~(/\ cache.maxAge = 0 /\ cache.etag = 0
          /\ cache.staleWhileRevalidate = None /\ cache.staleIfError = None)

\* C34 (as stated): a cacheControl-mode lookup that finds an entry past its
\* max-age reports stale-while-revalidate, respectively stale-if-error, as in
\* force exactly when updated + maxAge * 1000 + relax * 1000 >= now, whether or
\* not must-revalidate is set.
C34_RelaxationsWhateverMustRevalidate ==
    [][\A c \in Calls :
          LET k == ccall[c]
              k2 == ccall'[c]
              validUntil == cache.updated + cache.maxAge * Second
              inForce(r) == r # None /\ validUntil + r * Second >= now
          IN (/\ k.mode = "cacheControl" /\ k.pc = "lookup" /\ k2.pc # "lookup"
              /\ cache.present /\ cache.maxAge # None /\ now > validUntil)
             => /\ k2.state = "STALE"
                /\ k2.staleWhileRevalidate = inForce(cache.staleWhileRevalidate)
                /\ k2.staleIfError = inForce(cache.staleIfError)]_vars

\* C34 (amended): it reports them so when must-revalidate is not set, and
\* reports neither as in force when it is.
C34_RelaxationsUnlessMustRevalidate ==
    [][\A c \in Calls :
          LET k == ccall[c]
              k2 == ccall'[c]
              validUntil == cache.updated + cache.maxAge * Second
              inForce(r) == /\ ~cache.mustRevalidate
                            /\ r # None /\ validUntil + r * Second >= now
          IN (/\ k.mode = "cacheControl" /\ k.pc = "lookup" /\ k2.pc # "lookup"
              /\ cache.present /\ cache.maxAge # None /\ now > validUntil)
             => /\ k2.state = "STALE"
                /\ k2.staleWhileRevalidate = inForce(cache.staleWhileRevalidate)
                /\ k2.staleIfError = inForce(cache.staleIfError)]_vars

C34_Witness ==
    \E c, b \in Calls :
        /\ ccall[c].mode = "cacheControl" /\ ccall[c].state = "STALE"
        /\ ccall[c].found.mustRevalidate /\ ccall[c].found.staleIfError # None
        /\ ~ccall[c].staleIfError /\ ccall[c].result = "network"
        /\ ccall[b].mode = "cacheControl" /\ ccall[b].state = "STALE"
        /\ ccall[b].found.staleWhileRevalidate # None /\ ~ccall[b].staleWhileRevalidate
        /\ ccall[b].found = ccall[c].found /\ now > Second

\* C35: a call without skipContentTypeHeaderValidation whose request, the
\* conditional one included, was answered 200 with a Content-Type that is not a
\* JSON one has failed with the content type error; the request was made once
\* and the circuit breaker has counted no failure.
C35_NonJsonFails ==
    \A c \in Calls :
        (/\ ccall[c].pc = "done" /\ ccall[c].mode = "cacheControl"
         /\ ccall[c].status = 200 /\ ~ccall[c].json /\ ~ccall[c].skipContentType)
        => /\ ccall[c].result = "contentType"
           /\ call[c].calls = 1
           /\ breaker.count = 0

\* C36: no cache operation made for a request issued before close() - a lookup
\* (cache.get) or a write-through (cache.set) - starts or completes once close()
\* has been called on the backend.
C36_NoCacheOperationAfterClose ==
    [][\A c \in Calls :
          (/\ ~ccall[c].afterClose
           /\ \/ ccall[c].pc = "cacheWait" /\ ccall'[c].pc = "lookup"
              \/ ccall[c].pc \in {"lookup", "fallback"} /\ ccall'[c].pc # ccall[c].pc
              \/ ccall[c].write.present /\ ~ccall'[c].write.present)
          => ~TablesClosed]_vars

\* C37: a step in which the caller's signal fires for a call (its own abort, or
\* abortAll) adds no failure to the circuit breaker's count and does not open
\* the circuit.
C37_CallerAbortNotCounted ==
    [][(\E c \in Calls : ~call[c].aborted /\ call'[c].aborted)
          => /\ breaker'.count <= breaker.count
             /\ breaker'.state = "open" => breaker.state = "open"]_vars

C39_RetryAfterWaitHoldsSlot ==
    cfg.parallelRequests =>
        /\ Cardinality({c \in Calls : call[c].pc \in {"inflight", "raSleep", "hoWait"}}) = active
        /\ active <= MaxParallel
        /\ \A c \in Calls : call[c].bgWake = None

\* A call waits out a Retry-After delay on the only slot while another call
\* waits in the queue.
C39_Witness ==
    /\ cfg.parallelRequests /\ active = MaxParallel /\ queue # <<>>
    /\ \E c \in Calls :
          call[c].pc = "raSleep" /\ call[c].attempt >= 1 /\ call[c].wakeAt > now

\* C40: the list of abort handles holds handles of unsettled calls only; a
\* handle enters it in the step that issues its call, leaves it in the step
\* that settles the call or in one that empties the list with every call
\* aborted (abortAll), and a call that settles leaves no handle behind; a
\* close() called while no call is outstanding resolves in that step.
C40_HandlesTrackCalls ==
    [][/\ \A c \in abortControllers : Unsettled(c)
       /\ \A c \in Calls :
             /\ (c \notin abortControllers /\ c \in abortControllers')
                   => call[c].pc = "idle" /\ call'[c].pc # "idle"
             /\ (call[c].pc = "idle" /\ call'[c].pc # "idle" /\ call'[c].outcome = "none")
                   => c \in abortControllers'
             /\ (c \in abortControllers /\ c \notin abortControllers')
                   => \/ call'[c].outcome # "none"
                      \/ abortControllers' = {} /\ call'[c].aborted
             /\ call'[c].outcome # "none" => c \notin abortControllers'
       /\ (~closed /\ closed' /\ \A c \in Calls : ~Unsettled(c))
             => abortControllers = {} /\ closer'.pc = "resolved"]_vars

\* close() with a timeout was called when the calls issued before had settled:
\* the list is empty and close() has resolved at once, aborting nothing.
C40_Witness ==
    /\ closer.pc = "resolved" /\ closer.timeout # 0 /\ closer.start = now
    /\ closer.abortedAt = None /\ abortControllers = {}
    /\ \E c, b \in Calls : c # b /\ call[c].outcome = "ok" /\ call[b].outcome = "aborted"

====
